---------------------------- MODULE Spec2Model ----------------------------
(***************************************************************************)
(* Website data pipeline: the crawler (Fetcher) of scripts/crawler.py and  *)
(* the record transformer of scripts/transformer.py, as state machines.    *)
(*                                                                         *)
(* Strings are TLA+ strings; urlparse / urljoin / keyword search are       *)
(* computed character by character as the Python code computes them.       *)
(* Environment assumption: the file system accepts writes (the except      *)
(* branches of save_metadata and save_html_file are not taken); a kill in  *)
(* the middle of a write leaves a truncated file.                          *)
(***************************************************************************)
EXTENDS Integers, Sequences, FiniteSets, TLC

(***************************************************************************)
(* Bounds of the model                                                     *)
(***************************************************************************)
NSites == 2          \* entries of the URL list a single crawler run iterates over
RerunSites == 1      \* entries of the URL list when the crawler is run repeatedly
MaxRuns == 2         \* how many times the crawler process is started
MaxAnchors == 3      \* longest <a> list of a homepage in the link-function runs
MaxDomains == 2      \* how many domains an extraction snapshot holds
MaxRecords == 4      \* longest record list of a standardized snapshot
MaxParts == 2        \* how many parts a document of the selector-chain runs has
MaxValidated == 2    \* how many records the validation runs hand to validate_record

(***************************************************************************)
(* String helpers (str methods of Python)                                  *)
(***************************************************************************)
Min(a, b) == IF a <= b THEN a ELSE b
Range(f) == {f[x] : x \in DOMAIN f}
Least(S) == CHOOSE n \in S : \A m \in S : n <= m

\* s[i:] and s[:i] with 1-based positions
From(s, i) == SubSeq(s, i, Len(s))
Upto(s, i) == SubSeq(s, 1, i)

\* str.startswith / str.endswith
StartsWith(s, p) == Len(p) <= Len(s) /\ SubSeq(s, 1, Len(p)) = p
EndsWith(s, p) == Len(p) <= Len(s) /\ SubSeq(s, Len(s) - Len(p) + 1, Len(s)) = p

\* the least element of a set of positions, 0 when it is empty
FirstOf(hits) == IF hits = {} THEN 0 ELSE CHOOSE i \in hits : \A j \in hits : i <= j

\* str.find, 1-based, 0 when absent
IndexOf(s, sub) ==
    FirstOf({i \in 1..(Len(s) - Len(sub) + 1) : SubSeq(s, i, i + Len(sub) - 1) = sub})

\* `sub in s`
Contains(s, sub) == IndexOf(s, sub) # 0

UpperChars == <<"A","B","C","D","E","F","G","H","I","J","K","L","M",
                "N","O","P","Q","R","S","T","U","V","W","X","Y","Z">>
LowerChars == <<"a","b","c","d","e","f","g","h","i","j","k","l","m",
                "n","o","p","q","r","s","t","u","v","w","x","y","z">>

LowerTable == [c \in Range(UpperChars) |-> LowerChars[CHOOSE n \in 1..26 : UpperChars[n] = c]]

LowerChar(c) == IF c \in DOMAIN LowerTable THEN LowerTable[c] ELSE c

\* str.lower
RECURSIVE Lower(_)
Lower(s) == IF s = "" THEN "" ELSE LowerChar(SubSeq(s, 1, 1)) \o Lower(From(s, 2))

\* str.strip (blanks)
RECURSIVE LStrip(_)
LStrip(s) == IF s # "" /\ SubSeq(s, 1, 1) = " " THEN LStrip(From(s, 2)) ELSE s
RECURSIVE RStrip(_)
RStrip(s) == IF s # "" /\ SubSeq(s, Len(s), Len(s)) = " " THEN RStrip(Upto(s, Len(s) - 1)) ELSE s
Strip(s) == LStrip(RStrip(s))

(***************************************************************************)
(* urllib.parse on the URL shapes of the model: scheme://netloc/path#frag, *)
(* scheme:path, /path, #frag and the empty reference (no query, no params, *)
(* no dot segments).                                                       *)
(***************************************************************************)
\* the nearer of two str.find results, `none` when both are 0
NearerOf(a, b, none) == Min(IF a = 0 THEN none ELSE a, IF b = 0 THEN none ELSE b)

\* position of the first "/" or "#" of s, Len(s)+1 when there is none
DelimPos(s) == NearerOf(IndexOf(s, "/"), IndexOf(s, "#"), Len(s) + 1)

\* the steps of urlsplit, each on what the step before left over:
\* fragment, path, netloc, scheme
SplitFragment(scheme, netloc, rest, h) ==
    [scheme |-> scheme,
     netloc |-> netloc,
     path |-> IF h = 0 THEN rest ELSE Upto(rest, h - 1),
     fragment |-> IF h = 0 THEN "" ELSE From(rest, h + 1)]

SplitPath(scheme, netloc, rest) == SplitFragment(scheme, netloc, rest, IndexOf(rest, "#"))

SplitNetlocAt(scheme, rest, e) == SplitPath(scheme, Upto(rest, e - 1), From(rest, e))

SplitNetloc(scheme, rest) ==
    IF StartsWith(rest, "//") THEN SplitNetlocAt(scheme, From(rest, 3), DelimPos(From(rest, 3)))
    ELSE SplitPath(scheme, "", rest)

SplitSchemeAt(url, c, hasScheme) ==
    SplitNetloc(IF hasScheme THEN Lower(Upto(url, c - 1)) ELSE "",
                IF hasScheme THEN From(url, c + 1) ELSE url)

SplitScheme(url, c) == SplitSchemeAt(url, c, c > 1 /\ DelimPos(url) > c)

urlparse(url) == SplitScheme(url, IndexOf(url, ":"))

urlunparse(p) ==
    LET withNetloc == IF p.netloc # ""
                      THEN "//" \o p.netloc \o
                           (IF p.path # "" /\ ~StartsWith(p.path, "/") THEN "/" ELSE "") \o p.path
                      ELSE p.path
        withScheme == IF p.scheme # "" THEN p.scheme \o ":" \o withNetloc ELSE withNetloc
    IN  IF p.fragment # "" THEN withScheme \o "#" \o p.fragment ELSE withScheme

UsesRelative == {"http", "https", "ftp", "file"}

\* urljoin once both URLs are parsed and the reference has its scheme
JoinParsed(url, b, u) ==
    IF u.scheme # b.scheme \/ u.scheme \notin UsesRelative THEN url
    ELSE IF u.netloc # "" THEN urlunparse(u)
    ELSE IF u.path = "" THEN urlunparse([u EXCEPT !.netloc = b.netloc, !.path = b.path])
    ELSE IF StartsWith(u.path, "/") THEN urlunparse([u EXCEPT !.netloc = b.netloc])
    ELSE urlunparse([u EXCEPT !.netloc = b.netloc, !.path = "/" \o u.path])

\* a reference without scheme takes the scheme of the base
WithSchemeOf(b, u) == IF u.scheme = "" THEN [u EXCEPT !.scheme = b.scheme] ELSE u

JoinTo(url, b, u) == JoinParsed(url, b, WithSchemeOf(b, u))

urljoin(base, url) ==
    IF base = "" THEN url
    ELSE IF url = "" THEN base
    ELSE JoinTo(url, urlparse(base), urlparse(url))


(***************************************************************************)
(* dict helpers                                                            *)
(***************************************************************************)
EmptyDict == <<>>
\* d[k] = v
Put(d, k, v) == (k :> v) @@ d
\* d.get(k, default)
Get(d, k, default) == IF k \in DOMAIN d THEN d[k] ELSE default
\* Python's None where a string is expected
None == "<None>"

(***************************************************************************)
(* crawler.py: configuration                                               *)
(***************************************************************************)
AllUrls == <<"https://www.python.org", "https://www.apache.org",
             "https://www.mozilla.org", "https://www.linux.org",
             "https://www.nginx.com", "https://www.github.com",
             "https://www.stackoverflow.com", "https://www.docker.com">>
MAX_LINKS == 2
RAW_DATA_DIR == "data/raw"

\* lines 75-76
WithoutWww(netloc) == IF StartsWith(netloc, "www.") THEN From(netloc, 5) ELSE netloc

get_domain_name(url) == WithoutWww(urlparse(url).netloc)

(***************************************************************************)
(* HTML documents.  A document is the list of its elements in document     *)
(* order (tag, classes, role, id, ancestor tags, serialised html) and the  *)
(* list of its <a> elements (href attribute when present, visible text).   *)
(***************************************************************************)
El(tag, classes, role, id, ancestors, html) ==
    [tag |-> tag, classes |-> classes, role |-> role, id |-> id,
     ancestors |-> ancestors, html |-> html]
A(href, text) == [href |-> href, text |-> text]

\* CSS selectors used by the chains: tag, "anc tag", [role="r"], .class, #id
Matches(sel, el) ==
    IF StartsWith(sel, ".") THEN From(sel, 2) \in el.classes
    ELSE IF StartsWith(sel, "#") THEN el.id = From(sel, 2)
    ELSE IF StartsWith(sel, "[role=\"") THEN el.role = SubSeq(sel, 8, Len(sel) - 2)
    ELSE IF Contains(sel, " ")
         THEN LET sp == IndexOf(sel, " ")
              IN  el.tag = From(sel, sp + 1) /\ Upto(sel, sp - 1) \in el.ancestors
    ELSE el.tag = sel

\* soup.select_one: first element in document order, 0 when none
select_one(doc, sel) == FirstOf({n \in 1..Len(doc.elems) : Matches(sel, doc.elems[n])})

navbar_selectors == <<"nav", "header nav", "[role=\"navigation\"]", ".navbar",
                      ".nav", ".navigation", "header">>
footer_selectors == <<"footer", "[role=\"contentinfo\"]", ".footer",
                      ".site-footer", "#footer">>

\* the for loop over a selector list: html of the first selector that matches
RECURSIVE FirstSelected(_, _, _)
FirstSelected(doc, selectors, n) ==
    IF n > Len(selectors) THEN None
    ELSE IF select_one(doc, selectors[n]) # 0 THEN doc.elems[select_one(doc, selectors[n])].html
    ELSE FirstSelected(doc, selectors, n + 1)

extract_navbar_html(html_content) == FirstSelected(html_content, navbar_selectors, 1)
extract_footer_html(html_content) == FirstSelected(html_content, footer_selectors, 1)

\* soup.find_all('a', href=True)
HrefAnchors(doc) == SelectSeq(doc.anchors, LAMBDA a : "href" \in DOMAIN a)

case_study_keywords == <<"case", "success", "story", "customer", "testimonial">>

\* only the href is searched for the keywords
HasCaseStudyKeyword_HrefOnly(link) ==
    \E n \in 1..Len(case_study_keywords) : Contains(Lower(link.href), case_study_keywords[n])

HasCaseStudyKeyword(link) ==
    LET link_text == Strip(Lower(link.text))
        href_lower == Lower(link.href)
    IN  \E n \in 1..Len(case_study_keywords) :
            Contains(href_lower, case_study_keywords[n]) \/ Contains(link_text, case_study_keywords[n])

\* the test of lines 190-192
IsCaseStudyTarget(base_url, link) ==
    LET full_url == urljoin(base_url, link.href)
        parsed_url == urlparse(full_url)
    IN  /\ parsed_url.netloc = urlparse(base_url).netloc
        /\ parsed_url.scheme \in {"http", "https"}
        /\ full_url # base_url

RECURSIVE FindCaseStudyFrom(_, _, _)
FindCaseStudyFrom(base_url, links, n) ==
    IF n > Len(links) THEN None
    ELSE IF HasCaseStudyKeyword(links[n]) /\ IsCaseStudyTarget(base_url, links[n])
         THEN urljoin(base_url, links[n].href)
    ELSE FindCaseStudyFrom(base_url, links, n + 1)

find_case_study_url(base_url, html_content) ==
    FindCaseStudyFrom(base_url, HrefAnchors(html_content), 1)

BinaryExtensions == {".pdf", ".jpg", ".png", ".gif", ".zip"}

\* the test of lines 214-218
IsInternalTarget(base_url, link) ==
    LET full_url == urljoin(base_url, link.href)
        parsed_url == urlparse(full_url)
    IN  /\ parsed_url.netloc = urlparse(base_url).netloc
        /\ parsed_url.scheme \in {"http", "https"}
        /\ parsed_url.path # "/"
        /\ ~\E ext \in BinaryExtensions : EndsWith(parsed_url.path, ext)
        /\ full_url # base_url

InSeq(x, s) == \E n \in 1..Len(s) : s[n] = x

\* the for loop of lines 208-223, internal_links being the list collected so far
RECURSIVE CollectInternal(_, _, _, _, _)
CollectInternal(base_url, links, n, internal_links, max_links) ==
    IF n > Len(links) THEN internal_links
    ELSE LET full_url == urljoin(base_url, links[n].href)
         IN  IF IsInternalTarget(base_url, links[n]) /\ ~InSeq(full_url, internal_links)
             THEN LET appended == Append(internal_links, full_url)
                  IN  IF Len(appended) >= max_links THEN appended
                      ELSE CollectInternal(base_url, links, n + 1, appended, max_links)
             ELSE CollectInternal(base_url, links, n + 1, internal_links, max_links)

extract_internal_links(base_url, html_content, max_links) ==
    LET internal_links == CollectInternal(base_url, HrefAnchors(html_content), 1, <<>>, max_links)
    IN  SubSeq(internal_links, 1, Min(max_links, Len(internal_links)))


(***************************************************************************)
(* What the network may answer.  fetch_url returns None (timeout,          *)
(* connection error, HTTP error status) or the response.                   *)
(***************************************************************************)
Doc(elems, anchors, size) == [elems |-> elems, anchors |-> anchors, size |-> size]

\* a homepage with <nav>, <footer>, a case-study link and two more links
DocRich ==
    Doc(<<El("nav", {"navbar"}, "", "", {"body"}, "<nav class=navbar>menu</nav>"),
          El("footer", {}, "", "", {"body"}, "<footer>legal</footer>")>>,
        <<A("/about", "About"), A("/customer-stories/acme", "Acme"), A("/contact", "Contact")>>,
        300)
\* a homepage with neither navbar, footer nor links
DocBare == Doc(<<>>, <<>>, 40)
\* any page below the homepage
DocSub == Doc(<<>>, <<>>, 80)

\* a homepage with a navbar and one link, to a case study
DocLinked ==
    Doc(<<El("nav", {}, "", "", {"body"}, "<nav>menu</nav>")>>,
        <<A("/customer-stories/acme", "Acme")>>,
        120)

\* a homepage without navbar and footer and with one link, to a case study
DocPaged == Doc(<<>>, <<A("/customer-stories/acme", "Acme")>>, 120)

HomepageDocs == {DocRich, DocBare}

\* the <a> elements the homepages of the link runs are made of
AnchorPool ==
    {A("/about", "About"),
     A("/customer-stories/acme", "Acme"),
     A("/contact", "Contact"),
     A("/pricing", " Success Stories "),
     A("http://other.org/case", "Partners"),
     A("/", "Customer home"),
     A("#top", "Top"),
     A("/files/story.pdf", "Download"),
     [text |-> "Testimonial"]}

RECURSIVE SeqsUpTo(_, _)
SeqsUpTo(S, n) ==
    IF n = 0 THEN {<<>>}
    ELSE SeqsUpTo(S, n - 1) \cup {Append(q, x) : q \in {r \in SeqsUpTo(S, n - 1) : Len(r) = n - 1}, x \in S}

\* every homepage of at most MaxAnchors links, without navbar and footer
AnyLinkDocs == {Doc(<<>>, anchors, 100) : anchors \in SeqsUpTo(AnchorPool, MaxAnchors)}

\* the documents a homepage request may be answered with
WebDocs(w) ==
    CASE w = "sample" -> HomepageDocs
      [] w = "linked" -> {DocLinked}
      [] w = "any" -> AnyLinkDocs
      [] w = "paged" -> {DocPaged}

NoResponse == [ok |-> FALSE]
Response(doc) == [ok |-> TRUE, status_code |-> 200, text |-> doc]

\* the outcomes of fetch_url(url)
fetch_url(url, homepages) ==
    {NoResponse} \cup {Response(d) : d \in (IF url \in Range(AllUrls) THEN homepages ELSE {DocSub})}

(***************************************************************************)
(* State of the crawler process, of the metadata snapshot and of the raw   *)
(* data directory                                                          *)
(***************************************************************************)
VARIABLES
    URLS_TO_CRAWL,      \* the configured list, a prefix of lines 12-21
    web,                \* which homepages the sites serve: "sample", "linked" or "any"
    pc,                 \* position of main / crawl_website
    alive,              \* FALSE once the process was killed
    run,                \* number of the current process run, also its clock
    i,                  \* index of the for loop over URLS_TO_CRAWL
    metadata,           \* main's metadata dict
    loaded,             \* what load_metadata returned in this run
    disk,               \* METADATA_FILE
    files,              \* RAW_DATA_DIR: relative path -> content written
    crawl_data,         \* crawl_website's record of the site in flight
    homepage_response,  \* crawl_website's homepage response
    case_study_url,     \* crawl_website's discovered case-study URL
    internal_links,     \* crawl_website's internal link list
    k,                  \* index of the loop over internal_links
    log,                \* HTTP requests and sleeps of this run, in order
    interrupted         \* a KeyboardInterrupt was raised in this run

crawlerVars == <<URLS_TO_CRAWL, web, pc, alive, run, i, metadata, loaded, disk, files, crawl_data,
                 homepage_response, case_study_url, internal_links, k, log, interrupted>>

(***************************************************************************)
(* State of the transformer process and of its input and output files      *)
(***************************************************************************)
VARIABLES
    t_pc,               \* position of transformer.main
    extracted_file,     \* EXTRACTED_FILE
    standardized_file,  \* STANDARDIZED_FILE
    extracted_data,     \* main's extracted_data
    t_metadata,         \* main's metadata
    standardized_data,  \* main's standardized_data
    t_d,                \* index of the loop over the domains
    domain_records,     \* main's domain_records
    t_r                 \* index of the loop over domain_records

transformerVars == <<t_pc, extracted_file, standardized_file, extracted_data,
                     t_metadata, standardized_data, t_d, domain_records, t_r>>

VARIABLES
    a_pc,                   \* position of aggregator.main
    metrics_file,           \* METRICS_FILE
    a_standardized_data,    \* main's standardized_data
    a_records,              \* main's records
    a_metrics               \* main's metrics

aggregatorVars == <<a_pc, metrics_file, a_standardized_data, a_records, a_metrics>>

VARIABLES
    e_pc,               \* position of extractor.main
    raw_dir_exists,     \* RAW_DATA_DIR.exists()
    e_metadata,         \* main's metadata
    e_data,             \* main's extracted_data
    e_dirs,             \* the domain directories in the order of iterdir()
    e_d                 \* index of the loop over the domain directories

extractorVars == <<e_pc, raw_dir_exists, e_metadata, e_data, e_dirs, e_d>>

\* what a step of one stage leaves alone
outsideCrawler == <<transformerVars, aggregatorVars, extractorVars>>
outsideExtractor == <<crawlerVars, t_pc, standardized_file, extracted_data, t_metadata,
                      standardized_data, t_d, domain_records, t_r, aggregatorVars>>
outsideTransformer == <<URLS_TO_CRAWL, web, pc, alive, run, i, metadata, loaded, files, crawl_data,
                        homepage_response, case_study_url, internal_links, k, log, interrupted,
                        aggregatorVars, extractorVars>>
outsideAggregator == <<crawlerVars, transformerVars, extractorVars>>

NoFile == [kind |-> "absent"]
Truncated == [kind |-> "truncated"]
Json(data) == [kind |-> "json", data |-> data]

\* lines 49-58: {} when the file is absent or does not parse
load_metadata(file) == IF file.kind = "json" THEN file.data ELSE EmptyDict

\* lines 60-68
save_metadata(data) == Json(data)

\* lines 104-118: the file written and the relative path returned
FilePath(domain, filename) == RAW_DATA_DIR \o "/" \o domain \o "/" \o filename
save_html_file(fs, content, domain, filename) ==
    Put(fs, FilePath(domain, filename), content)

NoData == EmptyDict
NoLinks == <<>>

Digit(n) == SubSeq("0123456789", n + 1, n + 1)

\* datetime.isoformat of the instant t of the model's clock (one day per tick)
isoformat(t) == "2025-01-0" \o Digit(t + 1) \o "T00:00:00"

\* the record starts out as 'pending' instead of 'failed'
NewCrawlData_Pending(url, now) ==
    [url |-> url, domain |-> get_domain_name(url), crawl_time |-> isoformat(now),
     timestamp |-> now, status |-> "pending", pages |-> EmptyDict, components |-> EmptyDict]

\* lines 239-247
NewCrawlData(url, now) ==
    [url |-> url, domain |-> get_domain_name(url), crawl_time |-> isoformat(now),
     timestamp |-> now, status |-> "failed", pages |-> EmptyDict, components |-> EmptyDict]

PageEntry(url, response, file_path) ==
    [url |-> url, http_status |-> response.status_code, file_path |-> file_path,
     content_length |-> response.text.size]
ComponentEntry(html, file_path) == [file_path |-> file_path, content_length |-> Len(html)]

\* an HTTP request: the site it is made for, the page key it is made for,
\* the URL and whether a response came back
GetEvent(site, page, url, response) ==
    [op |-> "get", site |-> site, page |-> page, url |-> url, ok |-> response.ok]
SleepEvent(secs) == [op |-> "sleep", secs |-> secs]

base_url == URLS_TO_CRAWL[i]
domain == get_domain_name(base_url)

\* the local variables of crawl_website once it has returned
LocalsCleared ==
    /\ crawl_data' = NoData
    /\ homepage_response' = NoResponse
    /\ case_study_url' = None
    /\ internal_links' = NoLinks
    /\ k' = 0

\* the status line 333 is forgotten
Completed_StatusKept(data) ==
    data @@ [pages_crawled |-> Cardinality(DOMAIN data.pages),
             components_extracted |-> Cardinality(DOMAIN data.components)]

\* line 333
MarkedCompleted(data) == [data EXCEPT !.status = "completed"]

\* line 334
WithPagesCrawled(data) == data @@ [pages_crawled |-> Cardinality(DOMAIN data.pages)]

\* what crawl_data holds before line 333 and after each of lines 333, 334, 335
CompletionSteps(data) ==
    {data,
     MarkedCompleted(data),
     WithPagesCrawled(MarkedCompleted(data)),
     WithPagesCrawled(MarkedCompleted(data))
         @@ [components_extracted |-> Cardinality(DOMAIN data.components)]}

\* lines 333-335
Completed(data) ==
    [data EXCEPT !.status = "completed"]
        @@ [pages_crawled |-> Cardinality(DOMAIN data.pages),
            components_extracted |-> Cardinality(DOMAIN data.components)]

\* the record and the file an earlier run leaves for a site whose homepage
\* was DocBare (crawl time 0)
PriorRecord(url) ==
    Completed([NewCrawlData(url, 0) EXCEPT !.pages =
        Put(@, "homepage", PageEntry(url, Response(DocBare),
                                     FilePath(get_domain_name(url), "homepage.html")))])
PriorFiles(url) == save_html_file(EmptyDict, DocBare, get_domain_name(url), "homepage.html")

\* the data directory a run may find: empty, or left by an earlier run that
\* completed the first site of the list
FreshData == [disk |-> NoFile, files |-> EmptyDict]
PriorData == [disk |-> save_metadata(Put(EmptyDict, AllUrls[1], PriorRecord(AllUrls[1]))),
              files |-> PriorFiles(AllUrls[1])]

\* the transformer is not running and has not run
TransformerIdle ==
    /\ t_pc = "idle"
    /\ extracted_file = NoFile
    /\ standardized_file = NoFile
    /\ extracted_data = EmptyDict
    /\ t_metadata = EmptyDict
    /\ standardized_data = EmptyDict
    /\ t_d = 0
    /\ domain_records = <<>>
    /\ t_r = 0

\* the aggregator is not running and has not run
AggregatorIdle ==
    /\ a_pc = "idle"
    /\ metrics_file = NoFile
    /\ a_standardized_data = EmptyDict
    /\ a_records = <<>>
    /\ a_metrics = EmptyDict

\* the extractor is not running and has not run; the crawler's
\* setup_directories has made the raw data directory
ExtractorIdle ==
    /\ e_pc = "idle"
    /\ raw_dir_exists = TRUE
    /\ e_metadata = EmptyDict
    /\ e_data = EmptyDict
    /\ e_dirs = <<>>
    /\ e_d = 0

InitCrawler(nsites, w, data) ==
    /\ TransformerIdle
    /\ AggregatorIdle
    /\ ExtractorIdle
    /\ URLS_TO_CRAWL = SubSeq(AllUrls, 1, nsites)
    /\ web = w
    /\ \E d \in data : disk = d.disk /\ files = d.files
    /\ pc = "start"
    /\ alive = TRUE
    /\ run = 1
    /\ i = 1
    /\ metadata = EmptyDict
    /\ loaded = EmptyDict
    /\ crawl_data = NoData
    /\ homepage_response = NoResponse
    /\ case_study_url = None
    /\ internal_links = NoLinks
    /\ k = 0
    /\ log = <<>>
    /\ interrupted = FALSE

Init == InitCrawler(NSites, "sample", {FreshData, PriorData})
InitRerun == InitCrawler(RerunSites, "linked", {FreshData})
InitLinks == InitCrawler(1, "any", {FreshData, PriorData})

\* main, lines 347-355
Start ==
    /\ alive /\ pc = "start"
    /\ metadata' = load_metadata(disk)
    /\ loaded' = load_metadata(disk)
    /\ i' = 1
    /\ pc' = "for"
    /\ UNCHANGED <<outsideCrawler, URLS_TO_CRAWL, web, alive, run, disk, files, crawl_data, homepage_response,
                   case_study_url, internal_links, k, log, interrupted>>

\* the gate looks at whether any record exists and then never skips a stale one
AlreadyCompleted_NoGate(md, url) ==
    url \in DOMAIN md /\ Get(md[url], "status", None) = "done"

AlreadyCompleted(md, url) ==
    url \in DOMAIN md /\ Get(md[url], "status", None) = "completed"

\* crawl_website, lines 234-237: the idempotency gate
SkipCompleted ==
    /\ alive /\ pc = "for" /\ i <= Len(URLS_TO_CRAWL)
    /\ AlreadyCompleted(metadata, base_url)
    /\ pc' = "save"
    /\ UNCHANGED <<outsideCrawler, URLS_TO_CRAWL, web, alive, run, i, metadata, loaded, disk, files, crawl_data,
                   homepage_response, case_study_url, internal_links, k, log, interrupted>>

\* crawl_website, lines 239-249
BeginCrawl ==
    /\ alive /\ pc = "for" /\ i <= Len(URLS_TO_CRAWL)
    /\ ~AlreadyCompleted(metadata, base_url)
    /\ crawl_data' = NewCrawlData(base_url, run)
    /\ pc' = "homepage"
    /\ UNCHANGED <<outsideCrawler, URLS_TO_CRAWL, web, alive, run, i, metadata, loaded, disk, files,
                   homepage_response, case_study_url, internal_links, k, log, interrupted>>

\* crawl_website, lines 250-264 (and 342-343 on the early return)
FetchHomepage ==
    /\ alive /\ pc = "homepage"
    /\ \E response \in fetch_url(base_url, WebDocs(web)) :
        /\ log' = Append(log, GetEvent(base_url, "homepage", base_url, response))
        /\ IF ~response.ok
           THEN /\ metadata' = Put(metadata, base_url, crawl_data)
                /\ pc' = "save"
                /\ LocalsCleared
                /\ UNCHANGED files
           ELSE /\ homepage_response' = response
                /\ files' = save_html_file(files, response.text, domain, "homepage.html")
                /\ crawl_data' = [crawl_data EXCEPT !.pages =
                       Put(@, "homepage", PageEntry(base_url, response, FilePath(domain, "homepage.html")))]
                /\ pc' = "components"
                /\ UNCHANGED <<metadata, case_study_url, internal_links, k>>
    /\ UNCHANGED <<outsideCrawler, URLS_TO_CRAWL, web, alive, run, i, loaded, disk, interrupted>>

\* crawl_website, lines 266-288
ExtractComponents ==
    /\ alive /\ pc = "components"
    /\ LET navbar_html == extract_navbar_html(homepage_response.text)
           footer_html == extract_footer_html(homepage_response.text)
           files1 == IF navbar_html # None
                     THEN save_html_file(files, navbar_html, domain, "navbar.html")
                     ELSE files
           comps1 == IF navbar_html # None
                     THEN Put(crawl_data.components, "navbar",
                              ComponentEntry(navbar_html, FilePath(domain, "navbar.html")))
                     ELSE crawl_data.components
           files2 == IF footer_html # None
                     THEN save_html_file(files1, footer_html, domain, "footer.html")
                     ELSE files1
           comps2 == IF footer_html # None
                     THEN Put(comps1, "footer",
                              ComponentEntry(footer_html, FilePath(domain, "footer.html")))
                     ELSE comps1
       IN  /\ files' = files2
           /\ crawl_data' = [crawl_data EXCEPT !.components = comps2]
    /\ pc' = "find_case_study"
    /\ UNCHANGED <<outsideCrawler, URLS_TO_CRAWL, web, alive, run, i, metadata, loaded, disk, homepage_response,
                   case_study_url, internal_links, k, log, interrupted>>

\* crawl_website, lines 290-294 and 308-309
FindCaseStudy ==
    /\ alive /\ pc = "find_case_study"
    /\ case_study_url' = find_case_study_url(base_url, homepage_response.text)
    /\ IF case_study_url' # None
       THEN /\ log' = Append(log, SleepEvent(1))
            /\ pc' = "fetch_case_study"
       ELSE /\ log' = log
            /\ pc' = "extract_links"
    /\ UNCHANGED <<outsideCrawler, URLS_TO_CRAWL, web, alive, run, i, metadata, loaded, disk, files, crawl_data,
                   homepage_response, internal_links, k, interrupted>>

\* a case-study request without response ends the site like a homepage failure
FetchCaseStudy_FailureStops ==
    /\ alive /\ pc = "fetch_case_study"
    /\ \E response \in fetch_url(case_study_url, WebDocs(web)) :
        /\ log' = Append(log, GetEvent(base_url, "case_study", case_study_url, response))
        /\ IF response.ok
           THEN /\ files' = save_html_file(files, response.text, domain, "case_study.html")
                /\ crawl_data' = [crawl_data EXCEPT !.pages =
                       Put(@, "case_study",
                           PageEntry(case_study_url, response, FilePath(domain, "case_study.html")))]
                /\ pc' = "extract_links"
                /\ UNCHANGED <<metadata, homepage_response, case_study_url, internal_links, k>>
           ELSE /\ metadata' = Put(metadata, base_url, crawl_data)
                /\ pc' = "save"
                /\ LocalsCleared
                /\ UNCHANGED files
    /\ UNCHANGED <<outsideCrawler, URLS_TO_CRAWL, web, alive, run, i, loaded, disk, interrupted>>

\* crawl_website, lines 296-307
FetchCaseStudy ==
    /\ alive /\ pc = "fetch_case_study"
    /\ \E response \in fetch_url(case_study_url, WebDocs(web)) :
        /\ log' = Append(log, GetEvent(base_url, "case_study", case_study_url, response))
        /\ IF response.ok
           THEN /\ files' = save_html_file(files, response.text, domain, "case_study.html")
                /\ crawl_data' = [crawl_data EXCEPT !.pages =
                       Put(@, "case_study",
                           PageEntry(case_study_url, response, FilePath(domain, "case_study.html")))]
           ELSE UNCHANGED <<files, crawl_data>>
    /\ pc' = "extract_links"
    /\ UNCHANGED <<outsideCrawler, URLS_TO_CRAWL, web, alive, run, i, metadata, loaded, disk, homepage_response,
                   case_study_url, internal_links, k, interrupted>>

\* crawl_website, lines 311-313
ExtractLinks ==
    /\ alive /\ pc = "extract_links"
    /\ internal_links' = extract_internal_links(base_url, homepage_response.text, MAX_LINKS)
    /\ k' = 1
    /\ pc' = "internal"
    /\ UNCHANGED <<outsideCrawler, URLS_TO_CRAWL, web, alive, run, i, metadata, loaded, disk, files, crawl_data,
                   homepage_response, case_study_url, log, interrupted>>

\* the internal links are requested without the delay of line 316
FetchInternal_NoDelay ==
    /\ alive /\ pc = "internal" /\ k <= Len(internal_links)
    /\ \E response \in fetch_url(internal_links[k], WebDocs(web)) :
        /\ log' = Append(log, GetEvent(base_url, "internal_" \o Digit(k), internal_links[k], response))
        /\ IF response.ok
           THEN LET filename == "internal_page_" \o Digit(k) \o ".html"
                IN  /\ files' = save_html_file(files, response.text, domain, filename)
                    /\ crawl_data' = [crawl_data EXCEPT !.pages =
                           Put(@, "internal_" \o Digit(k),
                               PageEntry(internal_links[k], response, FilePath(domain, filename)))]
           ELSE UNCHANGED <<files, crawl_data>>
    /\ k' = k + 1
    /\ UNCHANGED <<outsideCrawler, URLS_TO_CRAWL, web, pc, alive, run, i, metadata, loaded, disk, homepage_response,
                   case_study_url, internal_links, interrupted>>

\* crawl_website, lines 315-331: one iteration of the loop
FetchInternal ==
    /\ alive /\ pc = "internal" /\ k <= Len(internal_links)
    /\ \E response \in fetch_url(internal_links[k], WebDocs(web)) :
        /\ log' = log \o <<SleepEvent(1),
                            GetEvent(base_url, "internal_" \o Digit(k), internal_links[k], response)>>
        /\ IF response.ok
           THEN LET filename == "internal_page_" \o Digit(k) \o ".html"
                IN  /\ files' = save_html_file(files, response.text, domain, filename)
                    /\ crawl_data' = [crawl_data EXCEPT !.pages =
                           Put(@, "internal_" \o Digit(k),
                               PageEntry(internal_links[k], response, FilePath(domain, filename)))]
           ELSE UNCHANGED <<files, crawl_data>>
    /\ k' = k + 1
    /\ UNCHANGED <<outsideCrawler, URLS_TO_CRAWL, web, pc, alive, run, i, metadata, loaded, disk, homepage_response,
                   case_study_url, internal_links, interrupted>>

\* crawl_website, lines 333-336 and 342-343
CompleteSite ==
    /\ alive /\ pc = "internal" /\ k > Len(internal_links)
    /\ metadata' = Put(metadata, base_url, Completed(crawl_data))
    /\ pc' = "save"
    /\ LocalsCleared
    /\ UNCHANGED <<outsideCrawler, URLS_TO_CRAWL, web, alive, run, i, loaded, disk, files, log, interrupted>>

InTry == {"homepage", "components", "find_case_study", "fetch_case_study",
          "extract_links", "internal"}

\* crawl_website, lines 338-343: an exception of the code between the calls,
\* raised at one of the given positions
CrawlErrorAt(positions) ==
    /\ alive /\ pc \in positions
    /\ metadata' = Put(metadata, base_url, crawl_data @@ [error |-> "exception"])
    /\ pc' = "save"
    /\ LocalsCleared
    /\ UNCHANGED <<outsideCrawler, URLS_TO_CRAWL, web, alive, run, i, loaded, disk, files, log, interrupted>>

CrawlError == CrawlErrorAt(InTry \ {"homepage"})

\* the snapshot is only written when the loop is over
SaveAfterSite_AtEndOnly ==
    /\ alive /\ pc = "save"
    /\ pc' = "sleep"
    /\ UNCHANGED <<outsideCrawler, URLS_TO_CRAWL, web, alive, run, i, metadata, loaded, disk, files, crawl_data,
                   homepage_response, case_study_url, internal_links, k, log, interrupted>>

\* main, lines 362-363
SaveAfterSite ==
    /\ alive /\ pc = "save"
    /\ disk' = save_metadata(metadata)
    /\ pc' = "sleep"
    /\ UNCHANGED <<outsideCrawler, URLS_TO_CRAWL, web, alive, run, i, metadata, loaded, files, crawl_data, homepage_response,
                   case_study_url, internal_links, k, log, interrupted>>

\* the loop does not move on to the next site
SleepBetweenSites_SameSite ==
    /\ alive /\ pc = "sleep"
    /\ log' = Append(log, SleepEvent(2))
    /\ pc' = "for"
    /\ UNCHANGED <<outsideCrawler, URLS_TO_CRAWL, web, alive, run, i, metadata, loaded, disk, files, crawl_data,
                   homepage_response, case_study_url, internal_links, k, interrupted>>

\* main, lines 365-366 and the next iteration of line 358
SleepBetweenSites ==
    /\ alive /\ pc = "sleep"
    /\ log' = Append(log, SleepEvent(2))
    /\ i' = i + 1
    /\ pc' = "for"
    /\ UNCHANGED <<outsideCrawler, URLS_TO_CRAWL, web, alive, run, metadata, loaded, disk, files, crawl_data, homepage_response,
                   case_study_url, internal_links, k, interrupted>>

\* main, lines 368-374: the loop is over
Summary ==
    /\ alive /\ pc = "for" /\ i > Len(URLS_TO_CRAWL)
    /\ pc' = "finally"
    /\ UNCHANGED <<outsideCrawler, URLS_TO_CRAWL, web, alive, run, i, metadata, loaded, disk, files, crawl_data, homepage_response,
                   case_study_url, internal_links, k, log, interrupted>>

\* the finally clause closes the session and does not save
FinalSave_NoWrite ==
    /\ alive /\ pc = "finally"
    /\ pc' = "exit"
    /\ UNCHANGED <<outsideCrawler, URLS_TO_CRAWL, web, alive, run, i, metadata, loaded, disk, files, crawl_data,
                   homepage_response, case_study_url, internal_links, k, log, interrupted>>

\* main, lines 380-382
FinalSave ==
    /\ alive /\ pc = "finally"
    /\ disk' = save_metadata(metadata)
    /\ pc' = "exit"
    /\ UNCHANGED <<outsideCrawler, URLS_TO_CRAWL, web, alive, run, i, metadata, loaded, files, crawl_data, homepage_response,
                   case_study_url, internal_links, k, log, interrupted>>

\* what a write of METADATA_FILE that is cut short can leave behind
CutWrite(file, data) == {file, Truncated, save_metadata(data)}

\* the record in flight when a KeyboardInterrupt arrives: once the loop over
\* the internal links is over, it may arrive between any two of lines 333-335
InterruptedRecords ==
    IF pc = "internal" /\ k > Len(internal_links) THEN CompletionSteps(crawl_data)
    ELSE {crawl_data}

\* KeyboardInterrupt: not caught by `except Exception`; inside crawl_website's
\* try the finally clause of lines 342-343 runs, then main's lines 376-382
Interrupt ==
    /\ alive /\ ~interrupted /\ pc \in InTry \cup {"start", "for", "save", "sleep"}
    /\ interrupted' = TRUE
    /\ metadata' \in (IF pc \in InTry
                      THEN {Put(metadata, base_url, data) : data \in InterruptedRecords}
                      ELSE {metadata})
    /\ disk' \in (IF pc = "save" THEN CutWrite(disk, metadata) ELSE {disk})
    /\ pc' = IF pc = "start" THEN "exit" ELSE "finally"
    /\ LocalsCleared
    /\ UNCHANGED <<outsideCrawler, URLS_TO_CRAWL, web, alive, run, i, loaded, files, log>>

\* SIGKILL / power loss: nothing more runs and the memory of the process is
\* gone; pc and i stay as the record of where the process died
Kill ==
    /\ alive /\ pc # "exit"
    /\ alive' = FALSE
    /\ disk' \in (IF pc \in {"save", "finally"} THEN CutWrite(disk, metadata) ELSE {disk})
    /\ metadata' = EmptyDict
    /\ loaded' = EmptyDict
    /\ log' = <<>>
    /\ LocalsCleared
    /\ UNCHANGED <<outsideCrawler, URLS_TO_CRAWL, web, pc, run, i, files, interrupted>>

\* the crawler is started again: a new process, the files stay
Rerun ==
    /\ (pc = "exit" \/ ~alive) /\ run < MaxRuns
    /\ run' = run + 1
    /\ alive' = TRUE
    /\ pc' = "start"
    /\ i' = 1
    /\ metadata' = EmptyDict
    /\ loaded' = EmptyDict
    /\ log' = <<>>
    /\ interrupted' = FALSE
    /\ LocalsCleared
    /\ UNCHANGED <<outsideCrawler, URLS_TO_CRAWL, web, disk, files>>

vars == <<crawlerVars, transformerVars, aggregatorVars, extractorVars>>

\* one run of the crawler process that nothing cuts short
NextUndisturbed ==
    \/ Start \/ SkipCompleted \/ BeginCrawl \/ FetchHomepage \/ ExtractComponents
    \/ FindCaseStudy \/ FetchCaseStudy \/ ExtractLinks \/ FetchInternal \/ CompleteSite
    \/ SaveAfterSite \/ SleepBetweenSites \/ Summary \/ FinalSave

\* one run of the crawler process
Next == NextUndisturbed \/ CrawlError \/ Interrupt \/ Kill

Spec == Init /\ [][Next]_vars

\* the crawler run again and again over the same data directory; the
\* exception is followed where a site's record is fullest, in the loop over
\* the internal links
NextRerun ==
    NextUndisturbed \/ CrawlErrorAt({"internal"}) \/ Interrupt \/ Kill \/ Rerun

SpecRerun == InitRerun /\ [][NextRerun]_vars

\* one undisturbed run over one site whose homepage is any list of links
SpecLinks == InitLinks /\ [][NextUndisturbed]_vars

\* the positions of main and crawl_website
Positions == InTry \cup {"start", "for", "save", "sleep", "finally", "exit"}

\* the process moves on from where it is: every step of a run changes pc or k
Proceeds ==
    /\ alive /\ pc # "exit"
    /\ pc' \in Positions /\ k' \in 0..(MAX_LINKS + 1)

\* one run that no signal cuts short.  The process is not held up for ever:
\* every request returns (REQUEST_TIMEOUT) and every sleep ends
NextUncut == NextUndisturbed \/ CrawlError
SpecUncut == Init /\ [][NextUncut]_vars /\ WF_<<pc, k>>(Proceeds)


(***************************************************************************)
(* transformer.py                                                          *)
(***************************************************************************)
\* Python's None where a dict is expected
NoneDict == [none |-> TRUE]

\* lines 33-44: None when the file is absent or does not parse
load_extracted_data(file) == IF file.kind = "json" THEN file.data ELSE NoneDict

\* transformer.py lines 46-57
t_load_metadata(file) == IF file.kind = "json" THEN file.data ELSE EmptyDict

\* the URLs of metadata.items() whose record names the domain
UrlsOfDomain(domain_name, md) == {url \in DOMAIN md : Get(md[url], "domain", None) = domain_name}

\* the progress map is not searched
find_website_url_by_domain_NoLookup(domain_name, md) ==
    IF domain_name # ""
    THEN (IF ~StartsWith(domain_name, "www.") THEN "https://www." \o domain_name
          ELSE "https://" \o domain_name)
    ELSE ""

\* lines 59-69
find_website_url_by_domain(domain_name, md) ==
    IF UrlsOfDomain(domain_name, md) # {} THEN CHOOSE url \in UrlsOfDomain(domain_name, md) : TRUE
    ELSE IF domain_name # ""
         THEN (IF ~StartsWith(domain_name, "www.") THEN "https://www." \o domain_name
               ELSE "https://" \o domain_name)
    ELSE ""

\* lines 71-77
get_crawl_timestamp(domain_name, md) ==
    IF UrlsOfDomain(domain_name, md) # {}
    THEN Get(md[CHOOSE url \in UrlsOfDomain(domain_name, md) : TRUE], "crawl_time", "")
    ELSE ""

\* lines 79-87
create_standardized_record(website_url, section, content, crawl_timestamp) ==
    [website |-> website_url,
     section |-> section,
     content |-> IF content # "" THEN Strip(content) ELSE "",
     crawl_timestamp |-> crawl_timestamp,
     isActive |-> TRUE]

sections == <<"navbar", "homepage", "footer", "case_study">>

\* a section without content gets no record
transform_domain_data_SkipEmpty(domain_name, domain_data, md) ==
    LET website_url == find_website_url_by_domain(domain_name, md)
        crawl_timestamp == get_crawl_timestamp(domain_name, md)
    IN  SelectSeq([n \in 1..Len(sections) |->
                      create_standardized_record(website_url, sections[n],
                                                 Get(domain_data, sections[n], ""), crawl_timestamp)],
                  LAMBDA record : record.content # "")

\* lines 89-122
transform_domain_data(domain_name, domain_data, md) ==
    LET website_url == find_website_url_by_domain(domain_name, md)
        crawl_timestamp == get_crawl_timestamp(domain_name, md)
    IN  [n \in 1..Len(sections) |->
            create_standardized_record(website_url, sections[n],
                                       Get(domain_data, sections[n], ""), crawl_timestamp)]

required_fields == {"website", "section", "content", "crawl_timestamp", "isActive"}

valid_sections == {"navbar", "homepage", "footer", "case_study"}

\* isinstance(value, bool): True and False are the only values of the type
isinstance_bool(value) == ToString(value) \in {"TRUE", "FALSE"}

\* any value of isActive passes
validate_record_AnyIsActive(record) ==
    /\ required_fields \subseteq DOMAIN record
    /\ record.section \in valid_sections

\* lines 124-144
validate_record(record) ==
    /\ required_fields \subseteq DOMAIN record
    /\ record.section \in valid_sections
    /\ isinstance_bool(record.isActive)

\* lines 160-176
NewStandardizedData ==
    [records |-> <<>>,
     summary |-> [total_domains |-> 0,
                  total_records |-> 0,
                  records_by_section |-> [navbar |-> 0, homepage |-> 0, footer |-> 0, case_study |-> 0],
                  domains_processed |-> <<>>,
                  validation_errors |-> 0]]

\* an accepted record is not counted under its section
AddRecord_SectionUncounted(data, record) ==
    IF validate_record(record)
    THEN [data EXCEPT !.records = Append(@, record),
                      !.summary.total_records = @ + 1]
    ELSE [data EXCEPT !.summary.validation_errors = @ + 1]

\* lines 191-197: the body of the loop over the records of one domain
AddRecord(data, record) ==
    IF validate_record(record)
    THEN [data EXCEPT !.records = Append(@, record),
                      !.summary.total_records = @ + 1,
                      !.summary.records_by_section[record.section] = @ + 1]
    ELSE [data EXCEPT !.summary.validation_errors = @ + 1]

\* lines 190-197 for the records of one domain, from the n-th on
RECURSIVE AddRecords(_, _, _)
AddRecords(data, records, n) ==
    IF n > Len(records) THEN data
    ELSE AddRecords(AddRecord(data, records[n]), records, n + 1)

\* the domains of the snapshot in the order in which .items() yields them
domains_data == Get(extracted_data, "domains", <<>>)

\* an extraction snapshot that cannot be loaded gives an empty output
TStart_WritesEmpty ==
    /\ t_pc = "start"
    /\ extracted_data' = load_extracted_data(extracted_file)
    /\ IF extracted_data' = NoneDict \/ extracted_data' = EmptyDict
       THEN /\ t_pc' = "exit"
            /\ standardized_file' = Json(NewStandardizedData)
            /\ UNCHANGED <<t_metadata, standardized_data, t_d>>
       ELSE /\ t_metadata' = t_load_metadata(disk)
            /\ standardized_data' = [NewStandardizedData EXCEPT
                  !.summary.total_domains = Len(Get(extracted_data', "domains", <<>>))]
            /\ t_d' = 1
            /\ t_pc' = "loop"
            /\ UNCHANGED standardized_file
    /\ UNCHANGED <<outsideTransformer, disk, extracted_file, domain_records, t_r>>

\* main, lines 151-180
TStart ==
    /\ t_pc = "start"
    /\ extracted_data' = load_extracted_data(extracted_file)
    /\ IF extracted_data' = NoneDict \/ extracted_data' = EmptyDict
       THEN /\ t_pc' = "exit"
            /\ UNCHANGED <<t_metadata, standardized_data, t_d>>
       ELSE /\ t_metadata' = t_load_metadata(disk)
            /\ standardized_data' = [NewStandardizedData EXCEPT
                  !.summary.total_domains = Len(Get(extracted_data', "domains", <<>>))]
            /\ t_d' = 1
            /\ t_pc' = "loop"
    /\ UNCHANGED <<outsideTransformer, disk, extracted_file, standardized_file,
                   domain_records, t_r>>

\* main, lines 183-199: one iteration of the loop over the domains
TDomain ==
    /\ t_pc = "loop" /\ t_d <= Len(domains_data)
    /\ domain_records' = transform_domain_data(domains_data[t_d].name, domains_data[t_d].data,
                                                t_metadata)
    /\ t_r' = Len(domain_records') + 1
    /\ standardized_data' = [AddRecords(standardized_data, domain_records', 1) EXCEPT
                                !.summary.domains_processed = Append(@, domains_data[t_d].name)]
    /\ t_d' = t_d + 1
    /\ UNCHANGED <<outsideTransformer, disk, t_pc, extracted_file, standardized_file,
                   extracted_data, t_metadata>>

\* main, lines 201-203
TSave ==
    /\ t_pc = "loop" /\ t_d > Len(domains_data)
    /\ standardized_file' = Json(standardized_data)
    /\ t_pc' = "exit"
    /\ UNCHANGED <<outsideTransformer, disk, extracted_file, extracted_data, t_metadata,
                   standardized_data, t_d, domain_records, t_r>>

\* main, lines 225-235: an exception during the loop
TError ==
    /\ t_pc = "loop"
    /\ standardized_data' = standardized_data @@ [error |-> "exception"]
    /\ standardized_file' = Json(standardized_data')
    /\ t_pc' = "exit"
    /\ UNCHANGED <<outsideTransformer, disk, extracted_file, extracted_data, t_metadata, t_d,
                   domain_records, t_r>>

\* what the extraction snapshot may hold for a domain: each group of fields
\* missing, empty or filled
FieldShapes == {"missing", "empty", "text"}
DomainData(outer, inner) ==
    [f \in {"navbar", "footer"} \cap (IF outer = "missing" THEN {} ELSE {"navbar", "footer"}) |->
        IF outer = "empty" THEN "" ELSE " Home About "]
    @@ [f \in {"homepage", "case_study"} \cap (IF inner = "missing" THEN {} ELSE {"homepage", "case_study"}) |->
        IF inner = "empty" THEN "" ELSE "Welcome"]
DomainDatas == {DomainData(outer, inner) : outer \in FieldShapes, inner \in FieldShapes}

\* the domain of a site whose host is www.www.example.com keeps one www.
DomainNames == {"python.org", "apache.org", "www.example.com"}

NoRepeat(q) == \A m, n \in 1..Len(q) : m # n => q[m] # q[n]

\* the extraction snapshots: up to MaxDomains domains with different names
DomainLists ==
    UNION {{[n \in 1..Len(names) |-> [name |-> names[n], data |-> datas[n]]] :
                datas \in [1..Len(names) -> DomainDatas]} :
           names \in {q \in SeqsUpTo(DomainNames, MaxDomains) : NoRepeat(q)}}
ExtractedFiles ==
    {NoFile, Truncated, Json(EmptyDict)} \cup {Json([domains |-> ds]) : ds \in DomainLists}

\* the crawler is not running
CrawlerStopped ==
    /\ URLS_TO_CRAWL = SubSeq(AllUrls, 1, NSites)
    /\ web = "sample"
    /\ pc = "exit"
    /\ alive = TRUE
    /\ run = 1
    /\ i = 1
    /\ metadata = EmptyDict
    /\ loaded = EmptyDict
    /\ crawl_data = NoData
    /\ homepage_response = NoResponse
    /\ case_study_url = None
    /\ internal_links = NoLinks
    /\ k = 0
    /\ log = <<>>
    /\ interrupted = FALSE

\* the crawler is not running; its snapshot is absent or left by an earlier run
CrawlerIdle ==
    /\ CrawlerStopped
    /\ \E data \in {FreshData, PriorData} : disk = data.disk /\ files = data.files

\* the data directory left by a crawl of the first site of the list and of a
\* site configured without www.
BareUrl == "https://apache.org"
RecordedData ==
    [disk |-> save_metadata(Put(Put(EmptyDict, AllUrls[1], PriorRecord(AllUrls[1])),
                                BareUrl, PriorRecord(BareUrl))),
     files |-> PriorFiles(AllUrls[1]) @@ PriorFiles(BareUrl)]

InitTransform ==
    /\ CrawlerStopped
    /\ \E data \in {FreshData, RecordedData} : disk = data.disk /\ files = data.files
    /\ AggregatorIdle
    /\ ExtractorIdle
    /\ t_pc = "start"
    /\ extracted_file \in ExtractedFiles
    /\ standardized_file = NoFile
    /\ extracted_data = EmptyDict
    /\ t_metadata = EmptyDict
    /\ standardized_data = EmptyDict
    /\ t_d = 0
    /\ domain_records = <<>>
    /\ t_r = 0

NextTransform == TStart \/ TDomain \/ TSave \/ TError

\* one run of the transformer over an extraction snapshot
SpecTransform == InitTransform /\ [][NextTransform]_vars

\* main, lines 190-197: one iteration of the loop over domain_records
TValidate ==
    /\ t_pc = "validate" /\ t_r <= Len(domain_records)
    /\ standardized_data' = AddRecord(standardized_data, domain_records[t_r])
    /\ t_r' = t_r + 1
    /\ UNCHANGED <<outsideTransformer, disk, t_pc, extracted_file, standardized_file,
                   extracted_data, t_metadata, t_d, domain_records>>

\* a record with the five fields
Complete(section, isActive) ==
    [website |-> "https://www.python.org", section |-> section, content |-> "Welcome",
     crawl_timestamp |-> isoformat(0), isActive |-> isActive]
Lacking(record, field) == [f \in DOMAIN record \ {field} |-> record[f]]

\* the records handed to validate_record: well formed, a field missing, a
\* field holding None, a section outside the four, isActive of another type
ValidationPool ==
    <<Complete("navbar", TRUE), Complete("homepage", TRUE),
      Complete("footer", FALSE), Complete("case_study", FALSE),
      [Complete("navbar", TRUE) EXCEPT !.content = None],
      Complete("sidebar", TRUE), Complete("Navbar", TRUE), Complete("", FALSE),
      Complete("navbar", "true"), Complete("footer", 1), Complete("homepage", 0),
      Complete("case_study", None),
      Lacking(Complete("navbar", TRUE), "website"),
      Lacking(Complete("navbar", TRUE), "section"),
      Lacking(Complete("footer", FALSE), "content"),
      Lacking(Complete("homepage", TRUE), "crawl_timestamp"),
      Lacking(Complete("case_study", TRUE), "isActive"),
      Lacking(Complete("sidebar", 1), "content"),
      EmptyDict>>

InitValidate ==
    /\ CrawlerIdle
    /\ AggregatorIdle
    /\ ExtractorIdle
    /\ t_pc = "validate"
    /\ extracted_file = NoFile
    /\ standardized_file = NoFile
    /\ extracted_data = EmptyDict
    /\ t_metadata = EmptyDict
    /\ standardized_data = NewStandardizedData
    /\ t_d = 1
    /\ \E n \in 0..MaxValidated : \E picks \in [1..n -> 1..Len(ValidationPool)] :
          domain_records = [m \in 1..n |-> ValidationPool[picks[m]]]
    /\ t_r = 1

\* the validation loop of main over records of any shape
SpecValidate == InitValidate /\ [][TValidate]_vars

(***************************************************************************)
(* The extractor (scripts/extractor.py).  A raw file is held as the        *)
(* document BeautifulSoup parses it to; white space is the blank.          *)
(***************************************************************************)
\* lines 35-44
e_load_metadata(file) == IF file.kind = "json" THEN file.data ELSE EmptyDict

\* the characters of s[lo..hi] whose positions are in keep
RECURSIVE Pick(_, _, _, _)
Pick(s, keep, lo, hi) ==
    IF lo > hi THEN ""
    ELSE IF lo = hi THEN (IF lo \in keep THEN SubSeq(s, lo, lo) ELSE "")
    ELSE Pick(s, keep, lo, (lo + hi) \div 2) \o Pick(s, keep, (lo + hi) \div 2 + 1, hi)

\* re.sub(r'\s+', ' ', text): a blank that follows a blank goes
CollapseBlanks(text) ==
    Pick(text, {n \in 1..Len(text) : ~(n > 1 /\ SubSeq(text, n - 1, n) = "  ")}, 1, Len(text))

\* lines 46-60
clean_text(text) == IF text = "" THEN "" ELSE Strip(CollapseBlanks(Strip(text)))

\* get_text(): the text nodes of serialised html, one after the other; lt is
\* where the next tag opens and gt where it closes, 0 when there is none
RECURSIVE get_text(_)
AfterTag(rest, gt) == IF gt = 0 THEN "" ELSE get_text(From(rest, gt + 1))
TextAndTag(html, lt) ==
    IF lt = 0 THEN html
    ELSE Upto(html, lt - 1) \o AfterTag(From(html, lt), IndexOf(From(html, lt), ">"))
get_text(html) == TextAndTag(html, IndexOf(html, "<"))

\* lines 62-76, for html without script, style, noscript and comments
extract_text_from_soup(html) == clean_text(get_text(html))

\* the selector lists of lines 95-103, 116-122 and 139-146
e_navbar_selectors == <<"nav", "header nav", "[role=\"navigation\"]", ".navbar",
                        ".nav", ".navigation", "header">>
e_footer_selectors == <<"footer", "[role=\"contentinfo\"]", ".footer",
                        ".site-footer", "#footer">>
main_selectors == <<"main", "[role=\"main\"]", ".main-content", ".content", "#main", "#content">>

\* the first selector of the list, from the n-th on, that selects an
\* element, 0 when none does
RECURSIVE FirstMatching(_, _, _)
FirstMatching(soup, selectors, n) ==
    IF n > Len(selectors) THEN 0
    ELSE IF select_one(soup, selectors[n]) # 0 THEN n
    ELSE FirstMatching(soup, selectors, n + 1)

\* the loops of lines 105-110, 124-129 and 149-152; "<None>" when they end
\* without a match
ChainText(soup, selectors, n) ==
    IF n = 0 THEN None
    ELSE extract_text_from_soup(soup.elems[select_one(soup, selectors[n])].html)

\* the .navbar marker is tried before the nav tag
extract_navbar_text_ClassFirst(soup) ==
    IF FirstMatching(soup, <<".navbar", "nav">>, 1) = 0 THEN ""
    ELSE ChainText(soup, <<".navbar", "nav">>, FirstMatching(soup, <<".navbar", "nav">>, 1))

\* lines 89-110
extract_navbar_text(soup) ==
    IF FirstMatching(soup, e_navbar_selectors, 1) = 0 THEN ""
    ELSE ChainText(soup, e_navbar_selectors, FirstMatching(soup, e_navbar_selectors, 1))

\* lines 112-131
extract_footer_text(soup) ==
    IF FirstMatching(soup, e_footer_selectors, 1) = 0 THEN ""
    ELSE ChainText(soup, e_footer_selectors, FirstMatching(soup, e_footer_selectors, 1))

\* s without the first occurrence of sub
Without(s, sub) ==
    IF IndexOf(s, sub) = 0 THEN s
    ELSE Upto(s, IndexOf(s, sub) - 1) \o From(s, IndexOf(s, sub) + Len(sub))

\* class_=re.compile(r'nav|footer|sidebar', re.I)
HasNavClass(el) ==
    \E class \in el.classes :
        \/ Contains(Lower(class), "nav")
        \/ Contains(Lower(class), "footer")
        \/ Contains(Lower(class), "sidebar")

\* lines 161-166: the elements decomposed in the copy of the body
Decomposed(el) == "body" \in el.ancestors /\ (el.tag \in {"nav", "header", "footer"} \/ HasNavClass(el))

\* the html of the body once the decomposed elements, from the n-th on, are gone
RECURSIVE BodyWithout(_, _, _)
BodyWithout(html, soup, n) ==
    IF n > Len(soup.elems) THEN html
    ELSE IF Decomposed(soup.elems[n])
         THEN BodyWithout(Without(html, soup.elems[n].html), soup, n + 1)
    ELSE BodyWithout(html, soup, n + 1)

\* str(soup): the html of the elements that have no parent element
RECURSIVE SoupHtml(_, _)
SoupHtml(soup, n) ==
    IF n > Len(soup.elems) THEN ""
    ELSE (IF soup.elems[n].ancestors = {} THEN soup.elems[n].html ELSE "")
         \o SoupHtml(soup, n + 1)

\* lines 154-171: the fallbacks of the main content
MainFallback(soup, body) ==
    IF body # 0
    THEN extract_text_from_soup(BodyWithout(soup.elems[body].html, soup, 1))
    ELSE extract_text_from_soup(SoupHtml(soup, 1))

\* lines 133-171
extract_main_content_text(soup) ==
    IF FirstMatching(soup, main_selectors, 1) # 0
    THEN ChainText(soup, main_selectors, FirstMatching(soup, main_selectors, 1))
    ELSE MainFallback(soup, select_one(soup, "body"))

\* lines 173-181
is_case_study_url(url) ==
    /\ url # ""
    /\ \E n \in 1..Len(case_study_keywords) : Contains(Lower(url), case_study_keywords[n])

\* a raw file that cannot be read or decoded
Unreadable == [unreadable |-> TRUE]

\* lines 183-200, with read_html_file of lines 78-87
extract_from_html_file(fs, file_path, content_type) ==
    IF "elems" \notin DOMAIN fs[file_path] THEN ""
    ELSE IF content_type = "navbar" THEN extract_navbar_text(fs[file_path])
    ELSE IF content_type = "footer" THEN extract_footer_text(fs[file_path])
    ELSE extract_main_content_text(fs[file_path])

\* lines 206-214
NewDomainData(domain_name) ==
    [domain |-> domain_name, navbar |-> "", homepage |-> "", footer |-> "", case_study |-> "",
     files_processed |-> <<>>]

\* lines 218-222, in the order of the dictionary
component_files == <<[filename |-> "navbar.html", content_type |-> "navbar"],
                     [filename |-> "footer.html", content_type |-> "footer"],
                     [filename |-> "homepage.html", content_type |-> "homepage"]>>

\* lines 226-229 and 236-238: the text of a file goes into the field
WithFile(domain_data, fs, domain_name, filename, content_type) ==
    [domain_data EXCEPT
        ![content_type] = extract_from_html_file(fs, FilePath(domain_name, filename), content_type),
        !.files_processed = Append(@, filename)]

\* lines 224-231 for the first n component files
RECURSIVE WithComponents(_, _, _, _)
WithComponents(domain_data, fs, domain_name, n) ==
    IF n = 0 THEN domain_data
    ELSE IF FilePath(domain_name, component_files[n].filename) \in DOMAIN fs
         THEN WithFile(WithComponents(domain_data, fs, domain_name, n - 1), fs, domain_name,
                       component_files[n].filename, component_files[n].content_type)
    ELSE WithComponents(domain_data, fs, domain_name, n - 1)

InternalKey(n) == "internal_" \o Digit(n)
InternalFile(n) == "internal_page_" \o Digit(n) \o ".html"

\* lines 242-253: the first internal page whose URL has a case-study keyword
\* and whose file exists, 0 when there is none
CaseStudyPage(fs, domain_name, pages) ==
    FirstOf({n \in 1..MAX_LINKS :
                /\ InternalKey(n) \in DOMAIN pages
                /\ is_case_study_url(Get(pages[InternalKey(n)], "url", ""))
                /\ FilePath(domain_name, InternalFile(n)) \in DOMAIN fs})

WithInternalPage(domain_data, fs, domain_name, n) ==
    IF n = 0 THEN domain_data
    ELSE WithFile(domain_data, fs, domain_name, InternalFile(n), "case_study")

\* lines 233-253
WithCaseStudyFile(domain_data, fs, domain_name, metadata_entry) ==
    IF FilePath(domain_name, "case_study.html") \in DOMAIN fs
    THEN WithFile(domain_data, fs, domain_name, "case_study.html", "case_study")
    ELSE IF metadata_entry # NoneDict /\ "pages" \in DOMAIN metadata_entry
         THEN WithInternalPage(domain_data, fs, domain_name,
                               CaseStudyPage(fs, domain_name, metadata_entry.pages))
    ELSE domain_data

\* lines 255-262
WithStats(domain_data) ==
    domain_data @@
    [stats |-> [navbar_length |-> Len(domain_data.navbar),
                homepage_length |-> Len(domain_data.homepage),
                footer_length |-> Len(domain_data.footer),
                case_study_length |-> Len(domain_data.case_study),
                total_files |-> Len(domain_data.files_processed)]]

\* how many of the four reading steps a call may get through: an I/O error
\* may end it before any of them, and 4 is the call without error
ReadingSteps == 0..4

\* lines 202-270
process_domain_files(fs, domain_name, metadata_entry, done) ==
    IF done = 4
    THEN WithStats(WithCaseStudyFile(WithComponents(NewDomainData(domain_name), fs, domain_name, 3),
                                     fs, domain_name, metadata_entry))
    ELSE WithComponents(NewDomainData(domain_name), fs, domain_name, done) @@ [error |-> "OSError"]

\* lines 278-286
NewExtractedData ==
    [domains |-> <<>>,
     summary |-> [total_domains |-> 0, successful_extractions |-> 0, failed_extractions |-> 0]]

\* the name of the directory a raw file lies in
DirOfRest(rest) == Upto(rest, IndexOf(rest, "/") - 1)
DirOf(file_path) == DirOfRest(From(file_path, Len(RAW_DATA_DIR) + 2))

\* RAW_DATA_DIR.iterdir(): the domain directories
DomainDirs(fs) == {DirOf(file_path) : file_path \in DOMAIN fs}

\* the orders in which iterdir() may yield them
Orders(S) == {q \in SeqsUpTo(S, Cardinality(S)) : Len(q) = Cardinality(S) /\ NoRepeat(q)}

\* lines 301-305
MetadataEntry(md, domain_name) ==
    IF UrlsOfDomain(domain_name, md) = {} THEN NoneDict
    ELSE md[CHOOSE url \in UrlsOfDomain(domain_name, md) : TRUE]

\* main, lines 273-294
EStart ==
    /\ e_pc = "start"
    /\ e_metadata' = e_load_metadata(disk)
    /\ e_data' = NewExtractedData
    /\ IF ~raw_dir_exists
       THEN e_pc' = "exit" /\ UNCHANGED <<e_dirs, e_d>>
       ELSE /\ e_dirs' \in Orders(DomainDirs(files))
            /\ e_d' = 1
            /\ e_pc' = "loop"
    /\ UNCHANGED <<outsideExtractor, extracted_file, raw_dir_exists>>

\* a domain whose processing raised is counted but left out of the output
Counted_FailedLeftOut(data, domain_name, domain_data) ==
    IF "error" \in DOMAIN domain_data
    THEN [data EXCEPT !.summary.total_domains = @ + 1,
                      !.summary.failed_extractions = @ + 1]
    ELSE [data EXCEPT !.summary.total_domains = @ + 1,
                      !.domains = Append(@, [name |-> domain_name, data |-> domain_data]),
                      !.summary.successful_extractions = @ + 1]

\* lines 296-314 once process_domain_files has returned
Counted(data, domain_name, domain_data) ==
    [data EXCEPT
        !.summary.total_domains = @ + 1,
        !.domains = Append(@, [name |-> domain_name, data |-> domain_data]),
        !.summary.successful_extractions = IF "error" \notin DOMAIN domain_data THEN @ + 1 ELSE @,
        !.summary.failed_extractions = IF "error" \in DOMAIN domain_data THEN @ + 1 ELSE @]

\* main, lines 296-314: one iteration of the loop over the directories
EDomain ==
    /\ e_pc = "loop" /\ e_d <= Len(e_dirs)
    /\ \E done \in ReadingSteps :
          e_data' = Counted(e_data, e_dirs[e_d],
                            process_domain_files(files, e_dirs[e_d],
                                                 MetadataEntry(e_metadata, e_dirs[e_d]), done))
    /\ e_d' = e_d + 1
    /\ UNCHANGED <<outsideExtractor, extracted_file, raw_dir_exists, e_pc, e_metadata, e_dirs>>

\* main, lines 316-318
ESave ==
    /\ e_pc = "loop" /\ e_d > Len(e_dirs)
    /\ extracted_file' = Json(e_data)
    /\ e_pc' = "exit"
    /\ UNCHANGED <<outsideExtractor, raw_dir_exists, e_metadata, e_data, e_dirs, e_d>>

\* main, lines 326-335: iterdir() raises between two directories
EError ==
    /\ e_pc = "loop" /\ e_d <= Len(e_dirs)
    /\ e_data' = e_data @@ [error |-> "OSError"]
    /\ extracted_file' = Json(e_data')
    /\ e_pc' = "exit"
    /\ UNCHANGED <<outsideExtractor, raw_dir_exists, e_metadata, e_dirs, e_d>>

NextExtract == EStart \/ EDomain \/ ESave \/ EError

\* the parts documents are made of: an element with its descendants
Part(tag, classes, role, id, html) == <<El(tag, classes, role, id, {}, html)>>
Parts ==
    {Part("nav", {}, "", "", "<nav>Menu</nav>"),
     Part("div", {"navbar"}, "", "", "<div class=navbar>Bar</div>"),
     <<El("header", {}, "", "", {}, "<header>Logo <nav>Top</nav></header>"),
       El("nav", {}, "", "", {"header"}, "<nav>Top</nav>")>>,
     Part("div", {}, "navigation", "", "<div role=navigation>Role</div>"),
     Part("footer", {}, "", "", "<footer>Legal</footer>"),
     Part("div", {}, "", "footer", "<div id=footer>Foot</div>"),
     Part("main", {}, "", "", "<main>Body   text</main>"),
     Part("div", {"content"}, "", "", "<div class=content> Hello </div>"),
     Part("p", {}, "", "", "<p>Plain</p>")}

RECURSIVE Flat(_)
Flat(parts) == IF parts = <<>> THEN <<>> ELSE Head(parts) \o Flat(Tail(parts))

Inside(tag, elems) == [n \in 1..Len(elems) |-> [elems[n] EXCEPT !.ancestors = @ \cup {tag}]]

\* the document of the parts, as a fragment
Fragment(parts) == Doc(Flat(parts), <<>>, 0)

\* the document of the parts inside <body>
Page(parts) ==
    Doc(<<El("body", {}, "", "", {}, "<body>" \o SoupHtml(Fragment(parts), 1) \o "</body>")>>
        \o Inside("body", Flat(parts)), <<>>, 0)

\* the documents of at most MaxParts parts, with and without <body>
LocateDocs ==
    {Fragment(parts) : parts \in SeqsUpTo(Parts, MaxParts)}
    \cup {Page(parts) : parts \in SeqsUpTo(Parts, MaxParts)}

\* the crawler and the later stages are not running; nothing extracted yet
InitBeforeExtract ==
    /\ CrawlerStopped
    /\ AggregatorIdle
    /\ t_pc = "idle"
    /\ standardized_file = NoFile
    /\ extracted_data = EmptyDict
    /\ t_metadata = EmptyDict
    /\ standardized_data = EmptyDict
    /\ t_d = 0
    /\ domain_records = <<>>
    /\ t_r = 0
    /\ e_pc = "start"
    /\ e_metadata = EmptyDict
    /\ e_data = EmptyDict
    /\ e_dirs = <<>>
    /\ e_d = 0

\* a raw data directory with one domain that has one component file
InitLocate ==
    /\ InitBeforeExtract
    /\ disk = NoFile
    /\ raw_dir_exists = TRUE
    /\ extracted_file = NoFile
    /\ \E soup \in LocateDocs, n \in 1..Len(component_files) :
          files = save_html_file(EmptyDict, soup, "python.org", component_files[n].filename)

\* the extractor over the documents of LocateDocs
SpecLocate == InitLocate /\ [][NextExtract]_vars

\* the metadata of a site whose first internal page was the given URL
CrawledRecord(url, internal_url) ==
    Completed([NewCrawlData(url, 0) EXCEPT !.pages =
        Put(Put(@, "homepage", PageEntry(url, Response(DocBare),
                                         FilePath(get_domain_name(url), "homepage.html"))),
            "internal_1", PageEntry(internal_url, Response(DocSub),
                                    FilePath(get_domain_name(url), "internal_page_1.html")))])

\* the snapshot of a crawl of the first two sites
CrawledMetadata ==
    Put(Put(EmptyDict, AllUrls[1], CrawledRecord(AllUrls[1], AllUrls[1] \o "/success-stories")),
        AllUrls[2], CrawledRecord(AllUrls[2], AllUrls[2] \o "/about"))

\* what the directory of a domain may hold
DirShapes ==
    {"navbar.html" :> Fragment(<<Part("nav", {}, "", "", "<nav>Menu</nav>")>>)
        @@ "footer.html" :> Fragment(<<Part("footer", {}, "", "", "<footer>Legal</footer>")>>)
        @@ "homepage.html" :> Page(<<Part("nav", {}, "", "", "<nav>Menu</nav>"),
                                     Part("p", {}, "", "", "<p>Plain</p>")>>)
        @@ "case_study.html" :> Page(<<Part("main", {}, "", "", "<main>Body   text</main>")>>),
     "homepage.html" :> Page(<<Part("p", {}, "", "", "<p>Plain</p>")>>),
     "homepage.html" :> Page(<<Part("p", {}, "", "", "<p>Plain</p>")>>)
        @@ "internal_page_1.html" :> Page(<<Part("p", {}, "", "", "<p>Story</p>")>>),
     "navbar.html" :> Unreadable
        @@ "homepage.html" :> Page(<<Part("p", {}, "", "", "<p>Plain</p>")>>)}

\* the files of a domain directory of the given shape
DirFiles(domain_name, shape) ==
    [file_path \in {FilePath(domain_name, filename) : filename \in DOMAIN shape} |->
        shape[From(file_path, Len(FilePath(domain_name, "")) + 1)]]

\* the files of the directories of the given shapes
RECURSIVE RawFiles(_)
RawFiles(shapes) ==
    IF DOMAIN shapes = {} THEN EmptyDict
    ELSE LET domain_name == CHOOSE name \in DOMAIN shapes : TRUE
         IN  DirFiles(domain_name, shapes[domain_name])
                 @@ RawFiles([name \in DOMAIN shapes \ {domain_name} |-> shapes[name]])

\* the raw data directories of at most MaxDomains domains
RawDirs ==
    UNION {{RawFiles(shapes) : shapes \in [names -> DirShapes]} :
           names \in {S \in SUBSET DomainNames : Cardinality(S) <= MaxDomains}}

\* what an earlier run of the extractor has left
PriorExtraction == Json(NewExtractedData)

InitExtract ==
    /\ InitBeforeExtract
    /\ disk \in {NoFile, Json(CrawledMetadata)}
    /\ \/ raw_dir_exists = FALSE /\ files = EmptyDict
       \/ raw_dir_exists = TRUE /\ files \in RawDirs
    /\ extracted_file \in {NoFile, PriorExtraction}

\* one run of the extractor over a raw data directory
SpecExtract == InitExtract /\ [][NextExtract]_vars

\* extractor.py is started once the crawler process has ended
BeginExtraction ==
    /\ e_pc = "idle"
    /\ pc = "exit" \/ ~alive
    /\ e_pc' = "start"
    /\ UNCHANGED <<outsideExtractor, extracted_file, raw_dir_exists, e_metadata, e_data,
                   e_dirs, e_d>>

InitRecrawl == InitCrawler(1, "paged", {FreshData})

NextRecrawl ==
    \/ NextUndisturbed \/ CrawlErrorAt({"internal"}) \/ Interrupt
    \/ (e_pc = "idle" /\ Rerun)
    \/ BeginExtraction \/ NextExtract

\* runs of the crawler over one site, interrupted or not, and then one run of
\* the extractor over what they have left
SpecRecrawl == InitRecrawl /\ [][NextRecrawl]_vars

(***************************************************************************)
(* The aggregator (scripts/aggregator.py)                                  *)
(*                                                                         *)
(* round(x, 2) is kept as a whole number of hundredths: 66.67 is 6667.     *)
(***************************************************************************)
\* lines 33-44
load_standardized_data(file) == IF file.kind = "json" THEN file.data ELSE NoneDict

\* the hundredths nearest to (q + r / den) hundredths, ties to the even one
RoundAt(q, r, den) ==
    IF 2 * r < den THEN q
    ELSE IF 2 * r > den THEN q + 1
    ELSE IF q % 2 = 0 THEN q ELSE q + 1

\* round(num / den, 2)
Round2(num, den) == RoundAt((100 * num) \div den, (100 * num) % den, den)

RECURSIVE SumSeq(_)
SumSeq(q) == IF q = <<>> THEN 0 ELSE Head(q) + SumSeq(Tail(q))

Greatest(S) == CHOOSE n \in S : \A m \in S : m <= n

\* the keys of websites_data / websites_activity
Websites(records) == {records[n].website : n \in 1..Len(records)}

\* websites_data[website].get(section, {}), lines 52-56: a later record of the
\* same website and section replaces the earlier one
RecordAt(records, hits) == IF hits = {} THEN EmptyDict ELSE records[Greatest(hits)]
SectionRecord(records, website, section) ==
    RecordAt(records, {n \in 1..Len(records) :
                          records[n].website = website /\ records[n].section = section})

\* content and content.strip()
NonBlank(content) == content # "" /\ Strip(content) # ""

\* line 64
case_study_content(records, website) ==
    Get(SectionRecord(records, website, "case_study"), "content", "")

\* the lengths appended at line 68, added up
RECURSIVE SumCaseStudyLengths(_, _)
SumCaseStudyLengths(records, websites) ==
    IF websites = {} THEN 0
    ELSE LET website == CHOOSE w \in websites : TRUE
         IN  Len(case_study_content(records, website))
                 + SumCaseStudyLengths(records, websites \ {website})

\* lines 74-87
CaseStudyReport(total_websites, with, without, total_length) ==
    [total_websites |-> total_websites,
     websites_with_case_studies |-> with,
     websites_without_case_studies |-> without,
     case_study_percentage |->
         IF total_websites > 0 THEN Round2(with * 100, total_websites) ELSE 0,
     average_case_study_length |->
         IF with > 0 /\ total_length > 0 THEN Round2(total_length, with) ELSE 0]

\* the websites counted at lines 66-72
WithCaseStudy(records) ==
    {website \in Websites(records) : NonBlank(case_study_content(records, website))}
\* only the websites that have no case-study record at all count as without
WithoutCaseStudy_NoRecord(records) ==
    {website \in Websites(records) :
        DOMAIN SectionRecord(records, website, "case_study") = {}}

WithoutCaseStudy(records) ==
    {website \in Websites(records) : ~NonBlank(case_study_content(records, website))}

\* lines 46-87
compute_case_study_metrics(records) ==
    CaseStudyReport(Cardinality(Websites(records)),
                    Cardinality(WithCaseStudy(records)),
                    Cardinality(WithoutCaseStudy(records)),
                    SumCaseStudyLengths(records, WithCaseStudy(records)))

\* websites_activity[website], lines 95-98, as the positions of its records
activity_list(records, website) == {n \in 1..Len(records) : records[n].website = website}

\* a website counts as active as soon as one of its records is active
is_website_active_Any(records, website) ==
    \E n \in activity_list(records, website) : Get(records[n], "isActive", TRUE)

\* line 105: all(activity_list)
is_website_active(records, website) ==
    \A n \in activity_list(records, website) : Get(records[n], "isActive", TRUE)

\* lines 114-124
ActivityReport(total_websites, active, inactive) ==
    [total_websites |-> total_websites,
     active_websites |-> active,
     inactive_websites |-> inactive,
     active_percentage |->
         IF total_websites > 0 THEN Round2(active * 100, total_websites) ELSE 0]

\* lines 89-124
compute_activity_metrics(records) ==
    ActivityReport(Cardinality(Websites(records)),
                   Cardinality({w \in Websites(records) : is_website_active(records, w)}),
                   Cardinality({w \in Websites(records) : ~is_website_active(records, w)}))

\* section_lengths[section], lines 134-140
RECURSIVE section_lengths(_, _)
section_lengths(records, section) ==
    IF records = <<>> THEN <<>>
    ELSE IF Head(records).section = section
         THEN <<Len(Get(Head(records), "content", ""))>> \o section_lengths(Tail(records), section)
    ELSE section_lengths(Tail(records), section)

\* lines 144-171
SectionMetrics(lengths) ==
    IF lengths # <<>>
    THEN [average_length |-> Round2(SumSeq(lengths), Len(lengths)),
          min_length |-> Least(Range(lengths)),
          max_length |-> Greatest(Range(lengths)),
          total_records |-> Len(lengths),
          non_empty_records |-> Cardinality({n \in 1..Len(lengths) : lengths[n] > 0}),
          empty_records |-> Len(lengths) - Cardinality({n \in 1..Len(lengths) : lengths[n] > 0}),
          non_empty_percentage |->
              Round2(Cardinality({n \in 1..Len(lengths) : lengths[n] > 0}) * 100, Len(lengths))]
    ELSE [average_length |-> 0, min_length |-> 0, max_length |-> 0, total_records |-> 0,
          non_empty_records |-> 0, empty_records |-> 0, non_empty_percentage |-> 0]

\* lines 126-174
compute_content_length_metrics(records) ==
    [section \in {records[n].section : n \in 1..Len(records)} |->
        SectionMetrics(section_lengths(records, section))]

\* line 195 without the strip: a record of blanks counts as filled
AdditionalReport_NoStrip(records, total_records, total_content_length, non_empty_records) ==
    [total_records |-> total_records,
     unique_websites |-> Cardinality(Websites(records)),
     total_content_length |-> total_content_length,
     average_content_length_overall |->
         IF total_records > 0 THEN Round2(total_content_length, total_records) ELSE 0,
     non_empty_records |->
         Cardinality({n \in 1..Len(records) : Get(records[n], "content", "") # ""}),
     empty_records |->
         total_records - Cardinality({n \in 1..Len(records) : Get(records[n], "content", "") # ""}),
     content_fill_rate |->
         IF total_records > 0
         THEN Round2(Cardinality({n \in 1..Len(records) : Get(records[n], "content", "") # ""}) * 100,
                     total_records)
         ELSE 0,
     section_distribution |->
         [section \in {records[n].section : n \in 1..Len(records)} |->
             Cardinality({n \in 1..Len(records) : records[n].section = section})],
     website_distribution |->
         [website \in Websites(records) |->
             Cardinality({n \in 1..Len(records) : records[n].website = website})],
     crawl_period |->
         [total_timestamps |->
             Cardinality({n \in 1..Len(records) : Get(records[n], "crawl_timestamp", "") # ""})]]

\* lines 198-214; of crawl_period the count of the timestamps is kept
AdditionalReport(records, total_records, total_content_length, non_empty_records) ==
    [total_records |-> total_records,
     unique_websites |-> Cardinality(Websites(records)),
     total_content_length |-> total_content_length,
     average_content_length_overall |->
         IF total_records > 0 THEN Round2(total_content_length, total_records) ELSE 0,
     non_empty_records |-> non_empty_records,
     empty_records |-> total_records - non_empty_records,
     content_fill_rate |->
         IF total_records > 0 THEN Round2(non_empty_records * 100, total_records) ELSE 0,
     section_distribution |->
         [section \in {records[n].section : n \in 1..Len(records)} |->
             Cardinality({n \in 1..Len(records) : records[n].section = section})],
     website_distribution |->
         [website \in Websites(records) |->
             Cardinality({n \in 1..Len(records) : records[n].website = website})],
     crawl_period |->
         [total_timestamps |->
             Cardinality({n \in 1..Len(records) : Get(records[n], "crawl_timestamp", "") # ""})]]

\* lines 176-214
compute_additional_metrics(records) ==
    AdditionalReport(records,
                     Len(records),
                     SumSeq([n \in 1..Len(records) |-> Len(Get(records[n], "content", ""))]),
                     Cardinality({n \in 1..Len(records) :
                                     Strip(Get(records[n], "content", "")) # ""}))

expected_sections == <<"navbar", "homepage", "footer", "case_study">>

\* lines 236-240 for the expected sections from the n-th on
RECURSIVE MissingSections(_, _)
MissingSections(content_metrics, n) ==
    IF n > Len(expected_sections) THEN <<>>
    ELSE (IF expected_sections[n] \notin DOMAIN content_metrics
          THEN <<"Missing section metrics: " \o expected_sections[n]>> ELSE <<>>)
         \o MissingSections(content_metrics, n + 1)

\* lines 222-225
CaseStudyErrors(case_study) ==
    IF /\ DOMAIN case_study # {}
       /\ Get(case_study, "websites_with_case_studies", 0)
              + Get(case_study, "websites_without_case_studies", 0)
          # Get(case_study, "total_websites", 0)
    THEN <<"Case study totals don't match">> ELSE <<>>

\* lines 228-232
ActivityErrors(activity) ==
    IF /\ DOMAIN activity # {}
       /\ Get(activity, "active_websites", 0) + Get(activity, "inactive_websites", 0)
          # Get(activity, "total_websites", 0)
    THEN <<"Activity totals don't match">> ELSE <<>>

\* the list validate_metrics builds, lines 220-240
validation_errors(metrics) ==
    CaseStudyErrors(Get(metrics, "case_study_analysis", EmptyDict))
    \o ActivityErrors(Get(metrics, "activity_analysis", EmptyDict))
    \o MissingSections(Get(metrics, "content_length_by_section", EmptyDict), 1)

\* lines 216-249: the list is logged, the result is whether it is empty
validate_metrics(metrics) == validation_errors(metrics) = <<>>

\* lines 270-279
NewMetrics(data) ==
    [input_summary |-> Get(data, "summary", EmptyDict),
     case_study_analysis |-> EmptyDict,
     activity_analysis |-> EmptyDict,
     content_length_by_section |-> EmptyDict,
     additional_metrics |-> EmptyDict,
     validation_passed |-> FALSE]

\* main, lines 256-279
ALoad ==
    /\ a_pc = "start"
    /\ a_standardized_data' = load_standardized_data(standardized_file)
    /\ IF a_standardized_data' = NoneDict \/ DOMAIN a_standardized_data' = {}
       THEN /\ a_pc' = "exit"
            /\ UNCHANGED <<a_records, a_metrics>>
       ELSE /\ a_records' = Get(a_standardized_data', "records", <<>>)
            /\ IF a_records' = <<>>
               THEN a_pc' = "exit" /\ UNCHANGED a_metrics
               ELSE a_pc' = "case_study" /\ a_metrics' = NewMetrics(a_standardized_data')
    /\ UNCHANGED <<outsideAggregator, metrics_file>>

\* the keys a computation reads with record[...]
Keyed(records, keys) == \A n \in 1..Len(records) : keys \subseteq DOMAIN records[n]

\* main, lines 283-284
ACaseStudy ==
    /\ a_pc = "case_study" /\ Keyed(a_records, {"website", "section"})
    /\ a_metrics' = [a_metrics EXCEPT !.case_study_analysis = compute_case_study_metrics(a_records)]
    /\ a_pc' = "activity"
    /\ UNCHANGED <<outsideAggregator, metrics_file, a_standardized_data, a_records>>

\* main, lines 286-287
AActivity ==
    /\ a_pc = "activity" /\ Keyed(a_records, {"website"})
    /\ a_metrics' = [a_metrics EXCEPT !.activity_analysis = compute_activity_metrics(a_records)]
    /\ a_pc' = "content_length"
    /\ UNCHANGED <<outsideAggregator, metrics_file, a_standardized_data, a_records>>

\* main, lines 289-290
AContentLength ==
    /\ a_pc = "content_length" /\ Keyed(a_records, {"section"})
    /\ a_metrics' = [a_metrics EXCEPT
          !.content_length_by_section = compute_content_length_metrics(a_records)]
    /\ a_pc' = "additional"
    /\ UNCHANGED <<outsideAggregator, metrics_file, a_standardized_data, a_records>>

\* main, lines 292-293
AAdditional ==
    /\ a_pc = "additional" /\ Keyed(a_records, {"website", "section"})
    /\ a_metrics' = [a_metrics EXCEPT !.additional_metrics = compute_additional_metrics(a_records)]
    /\ a_pc' = "validate"
    /\ UNCHANGED <<outsideAggregator, metrics_file, a_standardized_data, a_records>>

\* main, line 296
AValidate ==
    /\ a_pc = "validate"
    /\ a_metrics' = [a_metrics EXCEPT !.validation_passed = validate_metrics(a_metrics)]
    /\ a_pc' = "save"
    /\ UNCHANGED <<outsideAggregator, metrics_file, a_standardized_data, a_records>>

\* the report is written only when the validation passed
ASave_OnlyValid ==
    /\ a_pc = "save"
    /\ metrics_file' = IF a_metrics.validation_passed THEN Json(a_metrics) ELSE metrics_file
    /\ a_pc' = "exit"
    /\ UNCHANGED <<outsideAggregator, a_standardized_data, a_records, a_metrics>>

\* main, lines 299-300
ASave ==
    /\ a_pc = "save"
    /\ metrics_file' = Json(a_metrics)
    /\ a_pc' = "exit"
    /\ UNCHANGED <<outsideAggregator, a_standardized_data, a_records, a_metrics>>

\* main, lines 323-333: a record without the keys the first computation reads
\* raises KeyError inside the try (the later computations read the same keys)
AError ==
    /\ a_pc = "case_study" /\ ~Keyed(a_records, {"website", "section"})
    /\ a_metrics' = a_metrics @@ [error |-> "KeyError"]
    /\ metrics_file' = Json(a_metrics')
    /\ a_pc' = "exit"
    /\ UNCHANGED <<outsideAggregator, a_standardized_data, a_records>>

Site1 == "https://www.python.org"
Site2 == "https://www.apache.org"

\* the records a standardized snapshot may hold: the four sections of one
\* website, a second case study of it that is blank and inactive, a record of
\* another website without isActive, and a record without website and section
RecordPool ==
    {[website |-> Site1, section |-> "navbar", content |-> "abc", isActive |-> TRUE],
     [website |-> Site1, section |-> "homepage", content |-> "", isActive |-> TRUE],
     [website |-> Site1, section |-> "footer", content |-> "xy", isActive |-> TRUE],
     [website |-> Site1, section |-> "case_study", content |-> "story", isActive |-> TRUE],
     [website |-> Site1, section |-> "case_study", content |-> " ", isActive |-> FALSE],
     [website |-> Site2, section |-> "navbar", content |-> "abc"],
     [content |-> "abc"]}

RecordLists == SeqsUpTo(RecordPool, MaxRecords)

StandardizedFiles ==
    {NoFile, Truncated, Json(EmptyDict), Json([summary |-> EmptyDict])}
    \cup {Json([records |-> records, summary |-> [total_records |-> Len(records)]]) :
             records \in RecordLists}

\* the crawler and the transformer are not running
InitAfterTransform ==
    /\ CrawlerIdle
    /\ ExtractorIdle
    /\ disk = PriorData.disk
    /\ t_pc = "exit"
    /\ extracted_file = NoFile
    /\ extracted_data = EmptyDict
    /\ t_metadata = EmptyDict
    /\ standardized_data = EmptyDict
    /\ t_d = 0
    /\ domain_records = <<>>
    /\ t_r = 0

InitAggregate ==
    /\ InitAfterTransform
    /\ standardized_file \in StandardizedFiles
    /\ a_pc = "start"
    /\ metrics_file = NoFile
    /\ a_standardized_data = EmptyDict
    /\ a_records = <<>>
    /\ a_metrics = EmptyDict

NextAggregate ==
    ALoad \/ ACaseStudy \/ AActivity \/ AContentLength \/ AAdditional \/ AValidate \/ ASave \/ AError

\* one run of the aggregator over a standardized snapshot
SpecAggregate == InitAggregate /\ [][NextAggregate]_vars

\* the four computations applied to a record list, the empty one included
ComputeMetrics ==
    /\ a_pc = "call" /\ Keyed(a_records, {"website", "section"})
    /\ a_metrics' = [a_metrics EXCEPT
          !.case_study_analysis = compute_case_study_metrics(a_records),
          !.activity_analysis = compute_activity_metrics(a_records),
          !.content_length_by_section = compute_content_length_metrics(a_records),
          !.additional_metrics = compute_additional_metrics(a_records)]
    /\ a_pc' = "validate"
    /\ UNCHANGED <<outsideAggregator, metrics_file, a_standardized_data, a_records>>

InitMetrics ==
    /\ InitAfterTransform
    /\ standardized_file = NoFile
    /\ a_pc = "call"
    /\ metrics_file = NoFile
    /\ a_standardized_data = EmptyDict
    /\ a_records \in RecordLists
    /\ a_metrics = NewMetrics(EmptyDict)

NextMetrics == ComputeMetrics \/ AValidate

\* the computations and the validation as functions of the record list
SpecMetrics == InitMetrics /\ [][NextMetrics]_vars

(***************************************************************************)
(* Properties of the crawler                                               *)
(***************************************************************************)
Status(md, url) == IF url \in DOMAIN md THEN Get(md[url], "status", None) ELSE None

\* the requests of this run made for a site
GetsFor(url) == {n \in 1..Len(log) : log[n].op = "get" /\ log[n].site = url}

\* the sites whose homepage request of this run came back without a response
HomepageFailed(url) ==
    \E n \in GetsFor(url) : log[n].page = "homepage" /\ ~log[n].ok

\* C1: a site that the loaded snapshot records as completed gets no HTTP
\* request in the run, and its record stays what was loaded, in memory and
\* in every snapshot the run writes
C1_IdempotencyGate ==
    \A url \in DOMAIN loaded :
        Status(loaded, url) = "completed" =>
            /\ GetsFor(url) = {}
            /\ url \in DOMAIN metadata /\ metadata[url] = loaded[url]
            /\ disk.kind = "json" => (url \in DOMAIN disk.data /\ disk.data[url] = loaded[url])

\* a later run that went through the whole list with a completed site loaded
C1_Witness ==
    /\ run > 1 /\ alive /\ pc = "exit" /\ i > Len(URLS_TO_CRAWL)
    /\ \E url \in Range(URLS_TO_CRAWL) : Status(loaded, url) = "completed"

C4_HomepageFailureStops ==
    \A url \in Range(URLS_TO_CRAWL) :
        HomepageFailed(url) =>
            /\ Cardinality(GetsFor(url)) = 1
            /\ Status(metadata, url) = "failed"
            /\ metadata[url].pages = EmptyDict
            /\ metadata[url].components = EmptyDict
            /\ metadata[url].timestamp = run

\* the run went through the whole list and the homepage of the first site failed
C4_Witness ==
    /\ alive /\ pc = "exit" /\ i > Len(URLS_TO_CRAWL)
    /\ HomepageFailed(URLS_TO_CRAWL[1])

\* C5: a site whose homepage request failed has an error note in its record
C5_HomepageFailureHasErrorNote ==
    \A url \in Range(URLS_TO_CRAWL) :
        (HomepageFailed(url) /\ url \in DOMAIN metadata) => "error" \in DOMAIN metadata[url]


\* the status a snapshot file records for a site
DiskStatus(file, url) == IF file.kind = "json" THEN Status(file.data, url) ELSE None

\* this step of the run puts a record with status 'failed' into the metadata map
NewlyFailed(url) ==
    /\ Status(metadata', url) = "failed" /\ metadata'[url].timestamp = run'
    /\ (url \notin DOMAIN metadata \/ metadata'[url] # metadata[url])

\* C6 as stated: a site that the snapshot records as failed is never
\* recorded as completed afterwards, and a failed record is only ever written
\* at the homepage request (which got no response or was interrupted)
C6_FailedAbsorbing ==
    [][\A url \in Range(URLS_TO_CRAWL) :
          /\ DiskStatus(disk, url) = "failed" => DiskStatus(disk', url) # "completed"
          /\ NewlyFailed(url) => pc = "homepage"]_vars

\* C6 amended: within one run a record written as failed stays as it is (a
\* later run crawls the site again), and a failed record is written only by a
\* homepage request without response, by the exception handler or by an
\* interrupt during the site
C6_FailedWithinRun ==
    [][\A url \in Range(URLS_TO_CRAWL) :
          /\ (alive' /\ run' = run /\ Status(metadata, url) = "failed"
                /\ metadata[url].timestamp = run)
                => (url \in DOMAIN metadata' /\ metadata'[url] = metadata[url])
          /\ NewlyFailed(url) =>
                \/ pc = "homepage" /\ HomepageFailed(url)'
                \/ pc \in InTry /\ "error" \in DOMAIN metadata'[url]
                \/ pc \in InTry /\ ~interrupted /\ interrupted']_vars

\* a site recorded as failed in an earlier run is crawled again and the run
\* has gone on after recording it as failed once more
C6_Witness ==
    /\ run > 1 /\ alive /\ pc = "exit"
    /\ \E url \in Range(URLS_TO_CRAWL) :
          /\ Status(loaded, url) = "failed"
          /\ Status(metadata, url) = "failed" /\ metadata[url].timestamp = run
          /\ HomepageFailed(url)

\* the page keys of the requests of this run made for a site
Attempted(url) == {log[n].page : n \in GetsFor(url)}
Answered(url) == {log[n].page : n \in {m \in GetsFor(url) : log[m].ok}}

\* the page keys crawl_website has to request for a homepage document
ExpectedPages(url, doc) ==
    {"homepage"}
        \cup (IF find_case_study_url(url, doc) # None THEN {"case_study"} ELSE {})
        \cup {"internal_" \o Digit(n) : n \in 1..Len(extract_internal_links(url, doc, MAX_LINKS))}

HomepageDoc(url) == files[FilePath(get_domain_name(url), "homepage.html")]

\* C7: a site of this run whose homepage was answered and whose processing
\* was not cut by an exception or an interrupt is recorded as completed,
\* whatever the sub-page requests returned; its pages map holds exactly the
\* pages whose request was answered, and when crawl_website returns with a
\* completed record every sub-page of the homepage has been requested
C7_SubFetchFailuresSkipped ==
    \A url \in Range(URLS_TO_CRAWL) :
        ("homepage" \in Answered(url) /\ url \in DOMAIN metadata /\ metadata[url].timestamp = run) =>
            /\ DOMAIN metadata[url].pages = Answered(url)
            /\ \/ Status(metadata, url) = "completed"
               \/ "error" \in DOMAIN metadata[url]
               \/ interrupted /\ url = URLS_TO_CRAWL[i]
            /\ (Status(metadata, url) = "completed" /\ pc = "save" /\ url = URLS_TO_CRAWL[i]) =>
                  Attempted(url) = ExpectedPages(url, HomepageDoc(url))

\* a completed site whose case-study request failed and whose internal
\* requests, made after it, were answered
C7_Witness ==
    \E url \in Range(URLS_TO_CRAWL) :
        /\ Status(metadata, url) = "completed" /\ metadata[url].timestamp = run
        /\ "case_study" \in Attempted(url) \ Answered(url)
        /\ {"internal_1", "internal_2"} \subseteq Answered(url)

Links == HrefAnchors(homepage_response.text)
Targets == [n \in 1..Len(Links) |-> urljoin(base_url, Links[n].href)]

\* a link qualifies as case study: keyword in href or visible text, same
\* host, http or https, not the homepage URL
QualifiesAsCaseStudy(link, target) ==
    LET href == Lower(link.href)
        text == Lower(link.text)
        parsed == urlparse(target)
    IN  /\ \E kw \in {"case", "success", "story", "customer", "testimonial"} :
              Contains(href, kw) \/ Contains(text, kw)
        /\ parsed.netloc = urlparse(base_url).netloc
        /\ parsed.scheme \in {"http", "https"}
        /\ target # base_url
CaseStudyLinks(targets) == {n \in DOMAIN targets : QualifiesAsCaseStudy(Links[n], targets[n])}

\* C9: the case-study URL is the target of the first qualifying link of the
\* homepage; when no link qualifies there is no case-study request and no
\* case_study page, up to the record that crawl_website leaves
C9_FirstQualifyingLink ==
    /\ (alive /\ pc \in {"fetch_case_study", "extract_links"}) =>
          LET targets == Targets
              qualifying == CaseStudyLinks(targets)
          IN  IF qualifying = {}
              THEN /\ case_study_url = None
                   /\ pc # "fetch_case_study"
                   /\ "case_study" \notin Attempted(base_url)
                   /\ "case_study" \notin DOMAIN crawl_data.pages
              ELSE case_study_url = targets[Least(qualifying)]
    /\ (alive /\ pc = "save" /\ "case_study" \notin Attempted(base_url)) =>
          (base_url \in DOMAIN metadata => "case_study" \notin DOMAIN metadata[base_url].pages)

\* the homepage has several qualifying links with different targets and its
\* first link does not qualify; the request goes to the first that does
C9_Witness ==
    /\ alive /\ pc = "fetch_case_study"
    /\ LET targets == Targets
           qualifying == CaseStudyLinks(targets)
       IN  /\ 1 \notin qualifying
           /\ \E n, m \in qualifying : targets[n] # targets[m]
           /\ case_study_url = targets[Least(qualifying)]

\* a link is a candidate internal link: same host, http or https, path not
\* "/", no binary extension, not the homepage URL
InternalCandidate(target) ==
    LET parsed == urlparse(target)
    IN  /\ parsed.netloc = urlparse(base_url).netloc
        /\ parsed.scheme \in {"http", "https"}
        /\ parsed.path # "/"
        /\ \A ext \in {".pdf", ".jpg", ".png", ".gif", ".zip"} : ~EndsWith(parsed.path, ext)
        /\ target # base_url
\* the candidates that are the first link to their target
FirstCandidates(targets) ==
    {n \in DOMAIN targets : InternalCandidate(targets[n]) /\ \A m \in 1..(n - 1) : targets[m] # targets[n]}

\* the homepage of the example: /about, /customer-stories/acme, /contact
ExampleHomepage ==
    [n \in 1..Len(Links) |-> Links[n].href] = <<"/about", "/customer-stories/acme", "/contact">>

\* the two selections do not influence each other: the internal links start
\* with the first candidate link and are as many as the cap and the
\* candidates allow, whatever the case-study selection took
SelectionsIndependent ==
    LET targets == Targets
        candidates == FirstCandidates(targets)
    IN  /\ Len(internal_links) = Min(MAX_LINKS, Cardinality(candidates))
        /\ candidates # {} => internal_links[1] = targets[Least(candidates)]

\* C10: once both selections are made, on the example homepage the
\* case-study URL is /customer-stories/acme and the internal links are /about
\* and /contact; on every homepage the internal links are selected as if no
\* case study had been selected
C10_ExampleAsStated ==
    (alive /\ pc = "internal" /\ k = 1) =>
        /\ ExampleHomepage =>
              /\ case_study_url = base_url \o "/customer-stories/acme"
              /\ internal_links = <<base_url \o "/about", base_url \o "/contact">>
        /\ SelectionsIndependent


(***************************************************************************)
(* Properties of the transformer                                           *)
(***************************************************************************)
\* the records emitted so far for the n-th domain of the snapshot and a section
RecordsOf(n, section) ==
    {m \in 1..Len(standardized_data.records) :
        /\ standardized_data.records[m].website
              = find_website_url_by_domain(domains_data[n].name, t_metadata)
        /\ standardized_data.records[m].section = section}

\* C3: every domain the loop has gone through has exactly one record for
\* each of navbar, homepage, footer, case_study, with empty content when the
\* snapshot has no or an empty field for the section; a snapshot written by a
\* run without exception holds four records for each domain
C3_FourRecordsPerDomain ==
    /\ (t_pc \in {"loop", "exit"} /\ standardized_data # EmptyDict) =>
          /\ Len(standardized_data.records) = 4 * (t_d - 1)
          /\ \A n \in 1..(t_d - 1) :
                \A section \in {"navbar", "homepage", "footer", "case_study"} :
                    /\ Cardinality(RecordsOf(n, section)) = 1
                    /\ Get(domains_data[n].data, section, "") = "" =>
                          \A m \in RecordsOf(n, section) : standardized_data.records[m].content = ""
    /\ (standardized_file.kind = "json" /\ "error" \notin DOMAIN standardized_file.data) =>
          Len(standardized_file.data.records) = 4 * Len(domains_data)

\* a snapshot was written for two domains, one of them without any field
C3_Witness ==
    /\ t_pc = "exit" /\ standardized_file.kind = "json"
    /\ "error" \notin DOMAIN standardized_file.data
    /\ Len(domains_data) = 2
    /\ \E n \in 1..2 : domains_data[n].data = EmptyDict
    /\ \E n \in 1..2 : Get(domains_data[n].data, "navbar", "") # ""


(***************************************************************************)
(* Properties of the internal links and of the delays                      *)
(***************************************************************************)
\* the n-th smallest element of a set of positions
RECURSIVE NthOf(_, _)
NthOf(S, n) == IF n = 1 THEN Least(S) ELSE NthOf(S \ {Least(S)}, n - 1)

\* the URL is the homepage of the site in hand, with or without a fragment
DesignatesHomepage(url) ==
    /\ urlparse(url).netloc = urlparse(base_url).netloc
    /\ urlparse(url).path \in {"", "/"}

\* the internal links are the targets of the first candidates, in document
\* order, as many as the cap allows
FirstSeenUpToCap(targets, candidates) ==
    /\ Len(internal_links) = Min(MAX_LINKS, Cardinality(candidates))
    /\ \A n \in 1..Len(internal_links) : internal_links[n] = targets[NthOf(candidates, n)]

\* C11: the internal links extracted from a homepage are at most the cap,
\* first-seen in document order, without duplicates, on the host of the
\* site with scheme http or https, without path "/" and binary extension,
\* and none of them designates the homepage
C11_InternalLinksFiltered ==
    (alive /\ pc = "internal" /\ k = 1) =>
        /\ Len(internal_links) <= MAX_LINKS
        /\ FirstSeenUpToCap(Targets, FirstCandidates(Targets))
        /\ \A m, n \in 1..Len(internal_links) : m # n => internal_links[m] # internal_links[n]
        /\ \A n \in 1..Len(internal_links) :
              /\ InternalCandidate(internal_links[n])
              /\ ~DesignatesHomepage(internal_links[n])

\* the requests and the delays of the run, by position in the log
Gets == {n \in 1..Len(log) : log[n].op = "get"}
Sleeps == {n \in 1..Len(log) : log[n].op = "sleep"}

\* C12: every case-study and internal-link request comes right after a
\* delay of 1 s, every homepage request but the first of the run after the
\* delay of 2 s between sites, and between any two requests of the run
\* there is a delay
C12_DelayBeforeEveryRequest ==
    /\ \A n \in Gets :
          IF log[n].page = "homepage"
          THEN n > 1 => log[n - 1] = SleepEvent(2)
          ELSE n > 1 /\ log[n - 1] = SleepEvent(1)
    /\ \A m, n \in Gets : m < n => \E d \in Sleeps : m < d /\ d < n

\* the run went through two sites, the first with a case-study request
\* and two internal-link requests
C12_Witness ==
    /\ alive /\ pc = "exit" /\ i > Len(URLS_TO_CRAWL)
    /\ {"case_study", "internal_1", "internal_2"} \subseteq Attempted(URLS_TO_CRAWL[1])
    /\ "homepage" \in Attempted(URLS_TO_CRAWL[2])

(***************************************************************************)
(* Properties of the aggregator                                            *)
(***************************************************************************)
\* the four computations have been applied to a_records
Computed == a_pc \in {"validate", "save"}

\* every website of the list has a record of each of the four sections
WellFormed(records) ==
    /\ records # <<>>
    /\ Keyed(records, {"website", "section"})
    /\ \A website \in Websites(records) : \A n \in 1..Len(expected_sections) :
           DOMAIN SectionRecord(records, website, expected_sections[n]) # {}

\* C13: for every record list the case-study report has with + without = total
\* and the activity report has active + inactive = total; on a non-empty list
\* holding the four section records of each website validate_metrics finds no
\* violation and validation_passed is true.
C13_TotalsMatch ==
    Computed =>
        /\ a_metrics.case_study_analysis.websites_with_case_studies
               + a_metrics.case_study_analysis.websites_without_case_studies
           = a_metrics.case_study_analysis.total_websites
        /\ a_metrics.activity_analysis.active_websites
               + a_metrics.activity_analysis.inactive_websites
           = a_metrics.activity_analysis.total_websites
        /\ a_metrics.case_study_analysis.total_websites = Cardinality(Websites(a_records))
        /\ WellFormed(a_records) => validation_errors(a_metrics) = <<>>
        /\ (a_pc = "save" /\ WellFormed(a_records)) => a_metrics.validation_passed

C13_Witness ==
    /\ a_pc = "save" /\ WellFormed(a_records)
    /\ a_metrics.validation_passed
    /\ a_metrics.case_study_analysis.websites_without_case_studies = 1
    /\ a_metrics.activity_analysis.inactive_websites = 1

\* the records of a website that say isActive = false
InactiveRecords(records, website) ==
    {n \in 1..Len(records) :
        /\ records[n].website = website
        /\ "isActive" \in DOMAIN records[n]
        /\ records[n].isActive = FALSE}

\* C14: a website is counted active if and only if every one of its records
\* is active; one inactive record makes it inactive whatever the number of its
\* active records.
C14_ActivityIsConjunction ==
    Computed =>
        /\ a_metrics.activity_analysis.inactive_websites
           = Cardinality({w \in Websites(a_records) : InactiveRecords(a_records, w) # {}})
        /\ a_metrics.activity_analysis.active_websites
           = Cardinality({w \in Websites(a_records) : InactiveRecords(a_records, w) = {}})

C14_Witness ==
    /\ Computed
    /\ Cardinality(InactiveRecords(a_records, Site1)) = 1
    /\ Cardinality(activity_list(a_records, Site1)) = 3
    /\ Site2 \in Websites(a_records)
    /\ a_metrics.activity_analysis.inactive_websites = 1
    /\ a_metrics.activity_analysis.active_websites = 1

Abs(n) == IF n < 0 THEN 0 - n ELSE n

\* hundredths is num / den rounded to two decimals
IsRounded(hundredths, num, den) == 2 * Abs(hundredths * den - 100 * num) <= den

\* the records whose content is not empty once trimmed
Filled(records) ==
    {n \in 1..Len(records) : Strip(Get(records[n], "content", "")) # ""}

Contents(records) == [n \in 1..Len(records) |-> Get(records[n], "content", "")]

\* C15: the fill rate is 100 * (records filled after trimming) / (records)
\* rounded to 2 decimals, 66.67 for the contents "abc", "", "xy", and 0 for the
\* empty list; a percentage or mean whose denominator is zero is 0.
C15_FillRate ==
    Computed =>
        /\ a_records # <<>> =>
               IsRounded(a_metrics.additional_metrics.content_fill_rate,
                         100 * Cardinality(Filled(a_records)), Len(a_records))
        /\ Contents(a_records) = <<"abc", "", "xy">> =>
               a_metrics.additional_metrics.content_fill_rate = 6667
        /\ a_records = <<>> =>
               /\ a_metrics.additional_metrics.content_fill_rate = 0
               /\ a_metrics.additional_metrics.average_content_length_overall = 0
               /\ a_metrics.case_study_analysis.case_study_percentage = 0
               /\ a_metrics.activity_analysis.active_percentage = 0
               /\ DOMAIN a_metrics.content_length_by_section = {}
        /\ a_metrics.case_study_analysis.websites_with_case_studies = 0 =>
               a_metrics.case_study_analysis.average_case_study_length = 0

C15_Witness ==
    /\ Computed
    /\ Contents(a_records) = <<"abc", "", "xy">>
    /\ a_metrics.additional_metrics.content_fill_rate = 6667
    /\ a_metrics.case_study_analysis.websites_with_case_studies = 0
    /\ a_metrics.case_study_analysis.average_case_study_length = 0

\* main ran to its end without an exception
Finished == a_pc = "exit" /\ DOMAIN a_metrics # {} /\ "error" \notin DOMAIN a_metrics

\* C16: when validate_metrics finds an inconsistency the aggregator still
\* writes the report, with validation_passed = false, and does not abort.
C16_ViolationIsAdvisory ==
    /\ (a_pc = "save" /\ ~validate_metrics(a_metrics)) =>
           /\ a_metrics.validation_passed = FALSE
           /\ "error" \notin DOMAIN a_metrics
    /\ (Finished /\ ~validate_metrics(a_metrics)) =>
           /\ metrics_file = Json(a_metrics)
           /\ metrics_file.data.validation_passed = FALSE

C16_Witness ==
    /\ Finished
    /\ validation_errors(a_metrics) = <<"Missing section metrics: homepage">>
    /\ metrics_file = Json(a_metrics)

\* what a written report holds beside the entries of lines 270-279
ExtraEntries(report) == DOMAIN report \ DOMAIN NewMetrics(EmptyDict)

\* C17: when the validation fails, the written report holds the list of the
\* descriptions of the inconsistencies found.
C17_ReportListsViolations ==
    (Finished /\ metrics_file.kind = "json" /\ ~validate_metrics(a_metrics)) =>
        \E key \in ExtraEntries(metrics_file.data) :
            metrics_file.data[key] = validation_errors(a_metrics)

(***************************************************************************)
(* Properties of the extractor                                             *)
(***************************************************************************)
\* the selectors of a chain that select an element of the document
Selecting(soup, selectors) ==
    {n \in 1..Len(selectors) : \E m \in 1..Len(soup.elems) : Matches(selectors[n], soup.elems[m])}

\* the cleaned text of the first element, in document order, that the
\* selector selects
SelectedText(soup, sel) ==
    extract_text_from_soup(
        soup.elems[Least({m \in 1..Len(soup.elems) : Matches(sel, soup.elems[m])})].html)

\* text is what the earliest selector of the chain that selects something
\* selects, and otherwise
FirstMatchWins(soup, selectors, text, otherwise) ==
    IF Selecting(soup, selectors) = {} THEN text = otherwise
    ELSE text = SelectedText(soup, selectors[Least(Selecting(soup, selectors))])

\* the domain record of the only directory, once its files were read
TheRecord == e_data.domains[1].data
TheSoup == files[CHOOSE file_path \in DOMAIN files : TRUE]
Located(filename) ==
    /\ e_pc \in {"loop", "exit"} /\ e_d = 2
    /\ "error" \notin DOMAIN TheRecord
    /\ DOMAIN files = {FilePath("python.org", filename)}

\* the document has a <nav> element and another element of class navbar
NavAndNavbar(soup) ==
    \E m, n \in 1..Len(soup.elems) :
        /\ soup.elems[m].tag = "nav"
        /\ soup.elems[n].tag # "nav" /\ "navbar" \in soup.elems[n].classes

\* C18: each chain returns the text of what its first matching selector, in
\* the listed order, selects; a document with a <nav> element and an element
\* of class navbar yields the text of the <nav>; a navbar or footer chain
\* without match yields "", and the main-content chain without match goes on
\* to the body and then to the whole document, "" when there is no text.
C18_FirstMatcherWins ==
    /\ Located("navbar.html") =>
           /\ FirstMatchWins(TheSoup, e_navbar_selectors, TheRecord.navbar, "")
           /\ NavAndNavbar(TheSoup) => TheRecord.navbar = SelectedText(TheSoup, "nav")
    /\ Located("footer.html") =>
           FirstMatchWins(TheSoup, e_footer_selectors, TheRecord.footer, "")
    /\ Located("homepage.html") =>
           /\ FirstMatchWins(TheSoup, main_selectors, TheRecord.homepage,
                             MainFallback(TheSoup, select_one(TheSoup, "body")))
           /\ TheSoup.elems = <<>> => TheRecord.homepage = ""

C18_Witness ==
    /\ Located("navbar.html") /\ e_pc = "exit"
    /\ NavAndNavbar(TheSoup)
    /\ "navbar" \in TheSoup.elems[1].classes
    /\ TheSoup.elems[2].tag = "nav"
    /\ extracted_file.data.domains[1].data.navbar = "Menu"

\* the file is missing or cannot be read
NoText(fs, file_path) == file_path \notin DOMAIN fs \/ fs[file_path] = Unreadable

\* the records of the output that carry an error field
Failed(domains) == {n \in 1..Len(domains) : "error" \in DOMAIN domains[n].data}

\* C19: every domain directory yields exactly one record, in which navbar,
\* homepage, footer and case_study are present, "" when the file is missing
\* or unreadable; a domain whose processing raised has an error field, is
\* in the output and is counted: total_domains = successful_extractions +
\* failed_extractions = number of domain records.
C19_OneRecordPerDomain ==
    (e_pc \in {"loop", "exit"} /\ raw_dir_exists) =>
        /\ Len(e_data.domains) = e_d - 1
        /\ e_data.summary.total_domains = Len(e_data.domains)
        /\ e_data.summary.failed_extractions = Cardinality(Failed(e_data.domains))
        /\ e_data.summary.successful_extractions + e_data.summary.failed_extractions
           = e_data.summary.total_domains
        /\ \A n \in 1..Len(e_data.domains) :
              /\ e_data.domains[n].name = e_dirs[n]
              /\ {"navbar", "homepage", "footer", "case_study"} \subseteq DOMAIN e_data.domains[n].data
              /\ \A c \in 1..Len(component_files) :
                    NoText(files, FilePath(e_dirs[n], component_files[c].filename)) =>
                        e_data.domains[n].data[component_files[c].content_type] = ""
              /\ (/\ NoText(files, FilePath(e_dirs[n], "case_study.html"))
                  /\ NoText(files, FilePath(e_dirs[n], "internal_page_1.html"))) =>
                        e_data.domains[n].data.case_study = ""
        /\ (e_pc = "exit" /\ "error" \notin DOMAIN e_data) =>
              /\ extracted_file = Json(e_data)
              /\ Len(e_data.domains) = Cardinality(DomainDirs(files))
              /\ {e_data.domains[n].name : n \in 1..Len(e_data.domains)} = DomainDirs(files)

C19_Witness ==
    /\ e_pc = "exit" /\ extracted_file = Json(e_data)
    /\ "error" \notin DOMAIN e_data
    /\ e_data.summary.total_domains = 2
    /\ e_data.summary.successful_extractions = 1
    /\ Failed(e_data.domains) = {1}
    /\ e_data.domains[1].data.navbar = "Menu" /\ e_data.domains[1].data.homepage = ""
    /\ e_data.domains[2].data.case_study = "Story"

(***************************************************************************)
(* Properties of record validation                                         *)
(***************************************************************************)
IsBoolean(value) == \E b \in BOOLEAN : ToString(value) = ToString(b)

\* what the contract rejects
Rejectable(record) ==
    \/ \E field \in {"website", "section", "content", "crawl_timestamp", "isActive"} :
          field \notin DOMAIN record
    \/ record.section \notin {"navbar", "homepage", "footer", "case_study"}
    \/ ~IsBoolean(record.isActive)

\* C21: validate_record rejects a record exactly when a required field is
\* absent, the section is not one of the four or isActive is not a boolean;
\* a rejected record adds one to validation_errors and nothing to the output
\* records, an accepted record is appended and adds one to total_records and
\* to the count of its section.
C21_RejectedExactlyWhenMalformed ==
    [][t_pc = "validate" =>
        /\ validate_record(domain_records[t_r]) = ~Rejectable(domain_records[t_r])
        /\ IF Rejectable(domain_records[t_r])
           THEN /\ standardized_data'.summary.validation_errors
                      = standardized_data.summary.validation_errors + 1
                /\ standardized_data'.records = standardized_data.records
                /\ standardized_data'.summary.total_records
                      = standardized_data.summary.total_records
                /\ standardized_data'.summary.records_by_section
                      = standardized_data.summary.records_by_section
           ELSE /\ standardized_data'.records
                      = Append(standardized_data.records, domain_records[t_r])
                /\ standardized_data'.summary.total_records
                      = standardized_data.summary.total_records + 1
                /\ standardized_data'.summary.records_by_section
                      = [standardized_data.summary.records_by_section EXCEPT
                            ![domain_records[t_r].section] = @ + 1]
                /\ standardized_data'.summary.validation_errors
                      = standardized_data.summary.validation_errors]_vars

\* a record with every field and a valid section was rejected for its
\* isActive, and a well-formed one accepted after it
C21_Witness ==
    /\ t_pc = "validate" /\ t_r = 3
    /\ DOMAIN domain_records[1] = DOMAIN Complete("navbar", TRUE)
    /\ domain_records[1].section = "footer"
    /\ ~IsBoolean(domain_records[1].isActive)
    /\ ~Rejectable(domain_records[2])
    /\ Len(standardized_data.records) = 1
    /\ standardized_data.summary.validation_errors = 1

(***************************************************************************)
(* Properties of the resolution of a domain                                *)
(***************************************************************************)
\* the domain the loop of main has just gone through
LastDomain == domains_data[t_d - 1].name
Transformed == t_pc = "loop" /\ t_d > 1

\* the progress entries that record the domain
EntriesOf(name) == {url \in DOMAIN t_metadata : t_metadata[url].domain = name}

\* site URLs of the form https://www.<d>
WwwUrls == Range(AllUrls) \cup {"https://www.www.example.com"}

\* the four records carry one URL and one timestamp
SameOrigin ==
    /\ Len(domain_records) = 4
    /\ \A n \in 1..4 : /\ domain_records[n].website = domain_records[1].website
                       /\ domain_records[n].crawl_timestamp = domain_records[1].crawl_timestamp

\* a recorded domain resolves to the key and the crawl_time of its entry
ResolvedFromEntry ==
    EntriesOf(LastDomain) # {} =>
        /\ domain_records[1].website \in EntriesOf(LastDomain)
        /\ domain_records[1].crawl_timestamp = t_metadata[domain_records[1].website].crawl_time

RecordedFiles(entry) ==
    IF entry = NoneDict THEN {}
    ELSE {entry.pages[key].file_path : key \in DOMAIN entry.pages}
         \cup {entry.components[key].file_path : key \in DOMAIN entry.components}
CurrentFiles(domain_name) == RecordedFiles(MetadataEntry(e_load_metadata(disk), domain_name))

\* the domains the extractor has gone through
Extracted == Get(e_data, "domains", <<>>)

\* C23: every file the extractor has consumed for a domain is listed in the
\* pages or components map of the domain's progress record on disk.
C23_ConsumedFilesAreRecorded ==
    \A n \in 1..Len(Extracted) :
        \A m \in 1..Len(Extracted[n].data.files_processed) :
            FilePath(Extracted[n].name, Extracted[n].data.files_processed[m])
                \in CurrentFiles(Extracted[n].name)

(***************************************************************************)
(* Properties of the progress records                                      *)
(***************************************************************************)
\* the progress records of the snapshot file
Written == IF disk.kind = "json" THEN Range(disk.data) ELSE {}

\* C24: every progress record in the snapshot file has status failed or
\* completed; a completed one has a homepage entry, pages_crawled equal to
\* the size of its pages map and components_extracted equal to the size of
\* its components map; a record with any page or component entry has a
\* homepage entry.
C24_RecordsWellFormed ==
    \A record \in Written :
        /\ record.status \in {"failed", "completed"}
        /\ record.status = "completed" =>
              /\ "homepage" \in DOMAIN record.pages
              /\ "pages_crawled" \in DOMAIN record
              /\ record.pages_crawled = Cardinality(DOMAIN record.pages)
              /\ "components_extracted" \in DOMAIN record
              /\ record.components_extracted = Cardinality(DOMAIN record.components)
        /\ (DOMAIN record.pages \cup DOMAIN record.components # {}) =>
              "homepage" \in DOMAIN record.pages

(***************************************************************************)
(* Properties of the order of the requests                                 *)
(***************************************************************************)
SiteIndex(url) == CHOOSE j \in 1..Len(URLS_TO_CRAWL) : URLS_TO_CRAWL[j] = url

\* homepage, case study, then the internal links by number
PageRank(page) ==
    IF page = "homepage" THEN 0
    ELSE IF page = "case_study" THEN 1
    ELSE 1 + Least({j \in 1..MAX_LINKS : page = "internal_" \o Digit(j)})

PageKeys == {"homepage", "case_study"} \cup {"internal_" \o Digit(j) : j \in 1..MAX_LINKS}

\* the requests made so far: of sites the loop has reached, for the pages a
\* site may have, and later in the log means a later site of the list or a
\* later page of the same site
RequestsInOrder ==
    /\ \A n \in Gets :
          /\ log[n].site \in Range(URLS_TO_CRAWL)
          /\ SiteIndex(log[n].site) <= i
          /\ log[n].page \in PageKeys
    /\ \A m, n \in Gets :
          m < n =>
              \/ SiteIndex(log[m].site) < SiteIndex(log[n].site)
              \/ /\ log[m].site = log[n].site
                 /\ PageRank(log[m].page) < PageRank(log[n].page)

\* the run is over, the loop has gone through the list and the snapshot file
\* holds the record of every site
RunEnded ==
    /\ pc = "exit" /\ i > Len(URLS_TO_CRAWL)
    /\ disk = save_metadata(metadata)
    /\ Range(URLS_TO_CRAWL) \subseteq DOMAIN metadata

WrittenSummary == standardized_file.data.summary
CompletedTransformation ==
    standardized_file.kind = "json" /\ "error" \notin DOMAIN standardized_file.data

\* C26: in the snapshot written by a transformer run that completes,
\* total_records + validation_errors = 4 * total_domains, the four section
\* counts add up to total_records, domains_processed lists the domains of
\* the extraction snapshot once each, validation_errors is 0 and every
\* section count equals total_domains.
C26_SummaryAddsUp ==
    CompletedTransformation =>
        /\ WrittenSummary.total_domains = Len(domains_data)
        /\ WrittenSummary.total_records + WrittenSummary.validation_errors
              = 4 * WrittenSummary.total_domains
        /\ Len(standardized_file.data.records) = WrittenSummary.total_records
        /\ WrittenSummary.records_by_section.navbar
              + WrittenSummary.records_by_section.homepage
              + WrittenSummary.records_by_section.footer
              + WrittenSummary.records_by_section.case_study = WrittenSummary.total_records
        /\ Len(WrittenSummary.domains_processed) = Len(domains_data)
        /\ \A n \in 1..Len(domains_data) :
              /\ WrittenSummary.domains_processed[n] = domains_data[n].name
              /\ \A m \in 1..Len(domains_data) :
                    WrittenSummary.domains_processed[m] = WrittenSummary.domains_processed[n]
                        => m = n
        /\ WrittenSummary.validation_errors = 0
        /\ \A section \in DOMAIN WrittenSummary.records_by_section :
              WrittenSummary.records_by_section[section] = WrittenSummary.total_domains

\* a snapshot written for two domains: eight records, two of each section
C26_Witness ==
    /\ CompletedTransformation /\ t_pc = "exit"
    /\ WrittenSummary.total_domains = 2
    /\ WrittenSummary.total_records = 8
    /\ WrittenSummary.records_by_section.case_study = 2
    /\ Len(WrittenSummary.domains_processed) = 2

(***************************************************************************)
(* Properties of the stages                                                *)
(***************************************************************************)
\* one run of one of the three stages that follow the crawler
InitStages == InitExtract \/ InitTransform \/ InitAggregate
NextStages == NextExtract \/ NextTransform \/ NextAggregate
SpecStages == InitStages /\ [][NextStages]_vars

\* the input snapshot of the stage is missing or cannot be parsed
ExtractorInputFails == e_pc = "start" /\ ~raw_dir_exists
TransformerInputFails == t_pc = "start" /\ extracted_file.kind # "json"
AggregatorInputFails == a_pc = "start" /\ standardized_file.kind # "json"

\* the step ends the computation of the stage
ExtractorLeaves == e_pc = "loop" /\ e_pc' = "exit"
TransformerLeaves == t_pc = "loop" /\ t_pc' = "exit"
AggregatorLeaves == a_pc \notin {"idle", "start", "exit"} /\ a_pc' = "exit"

\* the output snapshot after the step is the partial one, with an error field
Partial(file, data) == file = Json(data) /\ "error" \in DOMAIN data

\* C20: a stage whose input snapshot is missing or malformed when it loads
\* it exits and leaves its output snapshot as it was; a stage that fails
\* during its computation writes its partial output with an error field.
C20_LoadFailureWritesNothing ==
    [][/\ ExtractorInputFails => (e_pc' = "exit" /\ extracted_file' = extracted_file)
       /\ TransformerInputFails => (t_pc' = "exit" /\ standardized_file' = standardized_file)
       /\ AggregatorInputFails => (a_pc' = "exit" /\ metrics_file' = metrics_file)
       /\ (ExtractorLeaves /\ e_d <= Len(e_dirs)) => Partial(extracted_file', e_data')
       /\ (TransformerLeaves /\ t_d <= Len(domains_data)) =>
              Partial(standardized_file', standardized_data')
       /\ (AggregatorLeaves /\ a_pc # "save") => Partial(metrics_file', a_metrics')
       /\ e_pc = "exit" => extracted_file' = extracted_file
       /\ t_pc = "exit" => standardized_file' = standardized_file
       /\ a_pc = "exit" => metrics_file' = metrics_file]_vars

\* the transformer has found a truncated extraction snapshot and has left
C20_Witness ==
    /\ t_pc = "exit"
    /\ extracted_file = Truncated
    /\ extracted_data = NoneDict
    /\ standardized_file = NoFile

=============================================================================
